---------------------------- MODULE Spec2Model ----------------------------
(***************************************************************************)
(* Bracket-schedule engine of volley-bracket (src/backend/logic.py) and    *)
(* the request handlers that drive it (src/backend/routes.py).             *)
(*                                                                         *)
(* Representation.  Python None is "" for the string fields (team slots,   *)
(* winner, court, source types: every real value is a non-empty string, so *)
(* Python truthiness is "# None"), NoId for match ids and display numbers  *)
(* (real values start at 1) and <<>> for time/timestamp.  Match ids are    *)
(* the integers the code writes as str(match_counter); a match list is a   *)
(* sequence whose k-th element has id k, which is what matches_map looks   *)
(* up.  A datetime is the number of minutes since midnight of day 0 (all   *)
(* datetimes of the code have zero seconds); its ISO string is             *)
(* <<day, hour, minute>>, its "%H:%M" string <<hour, minute>>, and         *)
(* start_time "HH:MM" is the pair <<hour, minute>> that split(":") and     *)
(* int() read from it.  NoTime marks a missing finish_times entry.         *)
(***************************************************************************)
EXTENDS Integers, Sequences, FiniteSets, TLC

VARIABLES db,      \* the tournaments table: id -> stored tournament
          resp,    \* outcome of the last request
          today,   \* the date datetime.now() returns (day number)
          flight   \* the requests the event loop is handling: caller -> request

vars == <<db, resp, today, flight>>

None == ""
NoId == 0
NoStamp == <<>>
NoTime == -1
MinutesPerDay == 1440

-----------------------------------------------------------------------------
(* models.py *)

NewMatch(id, bracket, round_n) ==
    [id |-> id, bracket |-> bracket, round |-> round_n, number |-> NoId,
     p1 |-> None, p2 |-> None, winner |-> None,
     source_p1 |-> NoId, source_p2 |-> NoId,
     source_p1_type |-> None, source_p2_type |-> None,
     next_win |-> NoId, next_loss |-> NoId,
     sets |-> <<>>, p1_sets |-> 0, p2_sets |-> 0,
     court |-> None, time |-> NoStamp, timestamp |-> NoStamp,
     status |-> "Pending",
     p1_label |-> <<"TBD">>, p2_label |-> <<"TBD">>, criticality |-> 0]

-----------------------------------------------------------------------------
(* logic.py: get_seeded_positions *)

(* an expansion that pairs seed s with seed s + len(seeds) *)
RECURSIVE ExpandSeedsAdjacent(_, _)
ExpandSeedsAdjacent(seeds, num_slots) ==
    IF Len(seeds) >= num_slots THEN seeds
    ELSE ExpandSeedsAdjacent([k \in 1..(2 * Len(seeds)) |->
                                 IF k % 2 = 1 THEN seeds[(k + 1) \div 2]
                                 ELSE seeds[k \div 2] + Len(seeds)],
                             num_slots)

RECURSIVE ExpandSeeds(_, _)
ExpandSeeds(seeds, num_slots) ==
    IF Len(seeds) >= num_slots THEN seeds
    ELSE ExpandSeeds([k \in 1..(2 * Len(seeds)) |->
                         IF k % 2 = 1 THEN seeds[(k + 1) \div 2]
                         ELSE 2 * Len(seeds) + 1 - seeds[k \div 2]],
                     num_slots)

(* a seeding that fills the slots in list order *)
PositionsInListOrder(num_slots, teams) ==
    [k \in 1..num_slots |-> IF k <= Len(teams) THEN teams[k] ELSE "BYE"]

get_seeded_positions(num_slots, teams) ==
    LET seeds == ExpandSeeds(<<1, 2>>, num_slots)
    IN  [k \in 1..Len(seeds) |->
            IF seeds[k] <= Len(teams) THEN teams[seeds[k]] ELSE "BYE"]

(* math.ceil(math.log2(count)) for count >= 1 *)
RECURSIVE CeilLog2From(_, _)
CeilLog2From(count, p) == IF 2 ^ p >= count THEN p ELSE CeilLog2From(count, p + 1)

CeilLog2(count) == CeilLog2From(count, 0)

-----------------------------------------------------------------------------
(* logic.py: generate_structure.  A bracket under construction is          *)
(* [ms, layers]: the match list and, per round, the ids created for it     *)
(* (wb_matches / lb_matches).  Loop indices i are 0-based as in the code.  *)

AddLayer(st, bracket, r, cnt) ==
    [ms     |-> st.ms \o [i \in 1..cnt |-> NewMatch(Len(st.ms) + i, bracket, r)],
     layers |-> Append(st.layers, [i \in 1..cnt |-> Len(st.ms) + i])]

RECURSIVE CreateWinners(_, _, _, _)
CreateWinners(st, r, wb_rounds, size) ==
    IF r > wb_rounds THEN st
    ELSE CreateWinners(AddLayer(st, "winners", r, size \div (2 ^ r)),
                       r + 1, wb_rounds, size)

(* a losers bracket with one match more in every round *)
RECURSIVE CreateLosersOneMore(_, _, _, _)
CreateLosersOneMore(st, r, lb_rounds, current_count) ==
    IF r > lb_rounds THEN st
    ELSE CreateLosersOneMore(AddLayer(st, "losers", r, current_count + 1), r + 1,
                             lb_rounds,
                             IF r % 2 = 0 THEN current_count \div 2 ELSE current_count)

(* a losers bracket whose rounds all keep the count of the first *)
RECURSIVE CreateLosersLevel(_, _, _, _)
CreateLosersLevel(st, r, lb_rounds, current_count) ==
    IF r > lb_rounds THEN st
    ELSE CreateLosersLevel(AddLayer(st, "losers", r, current_count), r + 1,
                           lb_rounds, current_count)

RECURSIVE CreateLosers(_, _, _, _)
CreateLosers(st, r, lb_rounds, current_count) ==
    IF r > lb_rounds THEN st
    ELSE CreateLosers(AddLayer(st, "losers", r, current_count), r + 1, lb_rounds,
                      IF r % 2 = 0 THEN current_count \div 2 ELSE current_count)

(* a link that sets the forward edge and forgets the source slot *)
LinkForwardOnly(ms, m, target, slot, type) ==
    IF type = "winner"
    THEN [ms EXCEPT ![m].next_win = target]
    ELSE [ms EXCEPT ![m].next_loss = target]

(* a link drawn from the target back to the match *)
LinkBackwards(ms, m, target, slot, type) ==
    LET fwd == IF type = "winner"
               THEN [ms EXCEPT ![target].next_win = m]
               ELSE [ms EXCEPT ![target].next_loss = m]
    IN  IF slot = "p1"
        THEN [fwd EXCEPT ![m].source_p1 = target, ![m].source_p1_type = type]
        ELSE [fwd EXCEPT ![m].source_p2 = target, ![m].source_p2_type = type]

(* m.next_win / m.next_loss = target.id; target.source_<slot> = m.id *)
Link(ms, m, target, slot, type) ==
    LET fwd == IF type = "winner"
               THEN [ms EXCEPT ![m].next_win = target]
               ELSE [ms EXCEPT ![m].next_loss = target]
    IN  IF slot = "p1"
        THEN [fwd EXCEPT ![target].source_p1 = m, ![target].source_p1_type = type]
        ELSE [fwd EXCEPT ![target].source_p2 = m, ![target].source_p2_type = type]

(* the (r, i) pairs a "for r in range(lo, hi): for i, m in enumerate(layer[r])" visits *)
RECURSIVE LoopPairs(_, _, _)
LoopPairs(layers, r, hi) ==
    IF r >= hi THEN <<>>
    ELSE [i \in 1..Len(layers[r]) |-> <<r, i - 1>>] \o LoopPairs(layers, r + 1, hi)

RECURSIVE LinkWinners(_, _, _)
LinkWinners(ms, wb, todo) ==
    IF todo = <<>> THEN ms
    ELSE LET r == Head(todo)[1]
             i == Head(todo)[2]
             m == wb[r][i + 1]
             target == wb[r + 1][(i \div 2) + 1]
         IN  LinkWinners(Link(ms, m, target, IF i % 2 = 0 THEN "p1" ELSE "p2", "winner"),
                         wb, Tail(todo))

RECURSIVE SeedRound1(_, _, _, _)
SeedRound1(ms, layer, seeded_teams, i) ==
    IF i >= Len(layer) THEN ms
    ELSE SeedRound1([ms EXCEPT ![layer[i + 1]].p1 = seeded_teams[i * 2 + 1],
                               ![layer[i + 1]].p2 = seeded_teams[i * 2 + 2]],
                    layer, seeded_teams, i + 1)

RECURSIVE LinkLosers(_, _, _)
LinkLosers(ms, lb, todo) ==
    IF todo = <<>> THEN ms
    ELSE LET r == Head(todo)[1]
             i == Head(todo)[2]
             m == lb[r][i + 1]
             target == IF r % 2 # 0 THEN lb[r + 1][i + 1] ELSE lb[r + 1][(i \div 2) + 1]
             slot == IF r % 2 # 0 THEN "p1" ELSE IF i % 2 = 0 THEN "p1" ELSE "p2"
         IN  LinkLosers(Link(ms, m, target, slot, "winner"), lb, Tail(todo))

RECURSIVE LinkDrops(_, _, _, _)
LinkDrops(ms, wb, lb, todo) ==
    IF todo = <<>> THEN ms
    ELSE LET r == Head(todo)[1]
             i == Head(todo)[2]
             drop_round == IF r = 1 THEN 1 ELSE (r - 1) * 2
             lb_layer == lb[drop_round]
             wb_m == wb[r][i + 1]
             target == IF r = 1 THEN lb_layer[(i \div 2) + 1]
                       ELSE IF i < Len(lb_layer) THEN lb_layer[i + 1]
                       ELSE lb_layer[Len(lb_layer)]
             slot == IF r = 1 /\ i % 2 = 0 THEN "p1" ELSE "p2"
         IN  LinkDrops(Link(ms, wb_m, target, slot, "loser"), wb, lb, Tail(todo))

GenerateLosers(ms2, wb, wb_rounds, size) ==
    LET lb_rounds == (wb_rounds - 1) * 2
        created == CreateLosers([ms |-> ms2, layers |-> <<>>], 1, lb_rounds, size \div 4)
        lb == created.layers
        ms3 == LinkLosers(created.ms, lb, LoopPairs(lb, 1, lb_rounds))
        ms4 == LinkDrops(ms3, wb, lb, LoopPairs(wb, 1, wb_rounds))
        wb_final == wb[wb_rounds][1]
        lb_final == lb[lb_rounds][1]
        ms5 == Link(ms4, wb_final, lb_final, "p2", "loser")
        final == Len(ms5) + 1
        ms6 == Append(ms5, NewMatch(final, "finals", 1))
        ms7 == Link(ms6, wb_final, final, "p1", "winner")
    IN  Link(ms7, lb_final, final, "p2", "winner")

generate_structure(teams, type) ==
    LET count == Len(teams) IN
    IF count < 2 THEN <<>>
    ELSE LET power == CeilLog2(count)
             size == 2 ^ power
             seeded_teams == get_seeded_positions(size, teams)
             wb_rounds == power
             created == CreateWinners([ms |-> <<>>, layers |-> <<>>], 1, wb_rounds, size)
             wb == created.layers
             ms1 == LinkWinners(created.ms, wb, LoopPairs(wb, 1, wb_rounds))
             ms2 == SeedRound1(ms1, wb[1], seeded_teams, 0)
         IN  IF type = "double" /\ size >= 4
             THEN GenerateLosers(ms2, wb, wb_rounds, size)
             ELSE ms2

-----------------------------------------------------------------------------
(* logic.py: refresh_bracket *)

IsGhost(m) == m.winner = "BYE" \/ m.p1 = "BYE" \/ m.p2 = "BYE"

(* a resolve whose loser is always the second slot of the source *)
ResolveLoserSecondSlot(ms, src_id, type) ==
    IF src_id = NoId \/ src_id \notin DOMAIN ms THEN None
    ELSE LET src == ms[src_id] IN
         IF type = "winner" THEN src.winner
         ELSE IF type = "loser"
              THEN IF src.winner = "BYE" THEN "BYE"
                   ELSE IF src.winner # None THEN src.p2 ELSE None
              ELSE None

resolve(ms, src_id, type) ==
    IF src_id = NoId \/ src_id \notin DOMAIN ms THEN None
    ELSE LET src == ms[src_id] IN
         IF type = "winner" THEN src.winner
         ELSE IF type = "loser"
              THEN IF src.winner = "BYE" THEN "BYE"
                   ELSE IF src.winner # None
                        THEN (IF src.winner = src.p2 THEN src.p1 ELSE src.p2)
                        ELSE None
              ELSE None

(* lines 143-146: the slots follow their sources *)
ResolveSlots(ms, m) ==
    [m EXCEPT !.p1 = IF m.source_p1 # NoId
                     THEN resolve(ms, m.source_p1, m.source_p1_type) ELSE @,
              !.p2 = IF m.source_p2 # NoId
                     THEN resolve(ms, m.source_p2, m.source_p2_type) ELSE @]

(* a result is dropped only when a slot is unresolved *)
InvalidateUnresolvedOnly(m) ==
    IF m.status = "Finished" /\ m.winner # "BYE" /\ (m.p1 = None \/ m.p2 = None)
    THEN [m EXCEPT !.winner = None, !.status = "Pending", !.sets = <<>>,
                   !.p1_sets = 0, !.p2_sets = 0]
    ELSE m

(* lines 148-154: a result its slots no longer support is dropped *)
Invalidate(m) ==
    IF m.status = "Finished" /\ m.winner # "BYE"
       /\ (m.p1 = None \/ m.p2 = None \/ (m.winner # m.p1 /\ m.winner # m.p2))
    THEN [m EXCEPT !.winner = None, !.status = "Pending", !.sets = <<>>,
                   !.p1_sets = 0, !.p2_sets = 0]
    ELSE m

(* lines 156-162: a match with a BYE slot advances the other slot *)
ByeCollapse(m) ==
    IF m.winner = None /\ (m.p1 = "BYE" \/ m.p2 = "BYE")
    THEN [m EXCEPT !.winner = IF m.p1 = "BYE" /\ m.p2 = "BYE" THEN "BYE"
                              ELSE IF m.p1 = "BYE" THEN m.p2 ELSE m.p1,
                   !.status = "Finished"]
    ELSE m

(* a pass that visits the matches from the last to the first *)
RECURSIVE SweepBackwards(_, _)
SweepBackwards(ms, k) ==
    IF k > Len(ms) THEN ms
    ELSE LET j == Len(ms) + 1 - k IN
         SweepBackwards([ms EXCEPT ![j] = ByeCollapse(Invalidate(ResolveSlots(ms, ms[j])))],
                        k + 1)

(* one pass of "for m in t_obj.matches", in place, from match k on *)
RECURSIVE SweepFrom(_, _)
SweepFrom(ms, k) ==
    IF k > Len(ms) THEN ms
    ELSE SweepFrom([ms EXCEPT ![k] = ByeCollapse(Invalidate(ResolveSlots(ms, ms[k])))],
                   k + 1)

Sweep(ms) == SweepFrom(ms, 1)

ResolverSweeps == 20

(* "for _ in range(20)".  A sweep is a function of the match list, so     *)
(* once one sweep changes nothing the remaining ones change nothing.      *)
RECURSIVE Sweeps(_, _)
Sweeps(ms, n) ==
    IF n = 0 THEN ms
    ELSE LET next == Sweep(ms) IN
         IF next = ms THEN ms ELSE Sweeps(next, n - 1)

(* a numbering whose counter also advances on ghosts *)
RECURSIVE NumberCountingGhosts(_, _, _)
NumberCountingGhosts(ms, k, display_counter) ==
    IF k > Len(ms) THEN ms
    ELSE IF IsGhost(ms[k])
         THEN NumberCountingGhosts([ms EXCEPT ![k].number = NoId], k + 1,
                                   display_counter + 1)
         ELSE NumberCountingGhosts([ms EXCEPT ![k].number = display_counter], k + 1,
                                   display_counter + 1)

(* lines 164-171: display numbers, in ascending id *)
RECURSIVE NumberFrom(_, _, _)
NumberFrom(ms, k, display_counter) ==
    IF k > Len(ms) THEN ms
    ELSE IF IsGhost(ms[k])
         THEN NumberFrom([ms EXCEPT ![k].number = NoId], k + 1, display_counter)
         ELSE NumberFrom([ms EXCEPT ![k].number = display_counter], k + 1,
                         display_counter + 1)

LabelDepth == 10

(* lines 173-185; a label is <<"TBD">>, <<"BYE">>, <<"Winner", n>> or <<"Loser", n>> *)
RECURSIVE get_label(_, _, _, _)
get_label(ms, src_id, type, depth) ==
    IF src_id = NoId \/ src_id \notin DOMAIN ms \/ depth > LabelDepth THEN <<"TBD">>
    ELSE LET src == ms[src_id] IN
         IF src.number # NoId
         THEN <<IF type = "winner" THEN "Winner" ELSE "Loser", src.number>>
         ELSE IF type = "winner"
              THEN IF src.p2 = "BYE"
                   THEN get_label(ms, src.source_p1, src.source_p1_type, depth + 1)
                   ELSE get_label(ms, src.source_p2, src.source_p2_type, depth + 1)
              ELSE <<"BYE">>

Labelled(ms) ==
    [k \in 1..Len(ms) |->
        [ms[k] EXCEPT !.p1_label = get_label(ms, ms[k].source_p1, ms[k].source_p1_type, 0),
                      !.p2_label = get_label(ms, ms[k].source_p2, ms[k].source_p2_type, 0)]]

refresh_bracket(ms) == Labelled(NumberFrom(Sweeps(ms, ResolverSweeps), 1, 1))

-----------------------------------------------------------------------------
(* logic.py: update_schedule *)

Max2(a, b) == IF a >= b THEN a ELSE b

(* a depth that follows next_win only *)
RECURSIVE DepthAlongWins(_, _)
DepthAlongWins(ms, mid) ==
    IF mid \notin DOMAIN ms THEN 0
    ELSE 1 + (IF ms[mid].next_win # NoId THEN DepthAlongWins(ms, ms[mid].next_win) ELSE 0)

(* lines 196-207: memoized DFS over next_win / next_loss *)
RECURSIVE get_depth(_, _)
get_depth(ms, mid) ==
    IF mid \notin DOMAIN ms THEN 0
    ELSE 1 + Max2(IF ms[mid].next_win # NoId THEN get_depth(ms, ms[mid].next_win) ELSE 0,
                  IF ms[mid].next_loss # NoId THEN get_depth(ms, ms[mid].next_loss) ELSE 0)

WithCriticality(ms) == [k \in 1..Len(ms) |-> [ms[k] EXCEPT !.criticality = get_depth(ms, k)]]

(* lines 212-214: today's date at start_time = <<hour, minute>>, seconds zeroed *)
StartInstant(day, start_time) == day * MinutesPerDay + start_time[1] * 60 + start_time[2]

(* current.strftime("%H:%M") and current.isoformat() / datetime.fromisoformat *)
(* a clock text that comes out empty *)
FormatTimeBlank(instant) == NoStamp

FormatTime(instant) == <<(instant % MinutesPerDay) \div 60, instant % 60>>
IsoFormat(instant) ==
    <<instant \div MinutesPerDay, (instant % MinutesPerDay) \div 60, instant % 60>>
FromIsoFormat(timestamp) ==
    timestamp[1] * MinutesPerDay + timestamp[2] * 60 + timestamp[3]

(* the keys of {c: start for c in t_obj.courts}, in insertion order *)
RECURSIVE DictKeys(_)
DictKeys(courts) ==
    IF courts = <<>> THEN <<>>
    ELSE LET rest == DictKeys(SubSeq(courts, 1, Len(courts) - 1))
             c == courts[Len(courts)]
         IN  IF \E j \in 1..Len(rest) : rest[j] = c THEN rest ELSE Append(rest, c)

(* a first pass that takes court and time from played matches too *)
SeedMatchResetsPlayed(m) ==
    IF IsGhost(m) THEN [m EXCEPT !.status = "Finished"]
    ELSE IF m.status = "Finished"
         THEN [m EXCEPT !.time = NoStamp, !.timestamp = NoStamp, !.court = None]
         ELSE [m EXCEPT !.time = NoStamp, !.timestamp = NoStamp, !.court = None,
                        !.status = "Pending"]

(* a first pass that also takes court and time from ghosts *)
SeedMatchClearsGhosts(m) ==
    IF IsGhost(m)
    THEN [m EXCEPT !.status = "Finished", !.time = NoStamp, !.timestamp = NoStamp,
                   !.court = None]
    ELSE IF m.status = "Finished" THEN m
    ELSE [m EXCEPT !.time = NoStamp, !.timestamp = NoStamp, !.court = None,
                   !.status = "Pending"]

(* lines 220-239: what the first pass leaves in a match *)
SeedMatch(m) ==
    IF IsGhost(m) THEN [m EXCEPT !.status = "Finished"]
    ELSE IF m.status = "Finished" THEN m
    ELSE [m EXCEPT !.time = NoStamp, !.timestamp = NoStamp, !.court = None,
                   !.status = "Pending"]

(* a first pass that takes every match with a timestamp as already played *)
FinishByTimestamp(m, start, duration) ==
    IF IsGhost(m) THEN start
    ELSE IF m.timestamp # NoStamp THEN FromIsoFormat(m.timestamp) + duration
    ELSE IF m.status = "Finished" THEN start + duration
    ELSE NoTime

(* lines 220-239: finish_times after the first pass (NoTime: no entry) *)
SeedFinish(m, start, duration) ==
    IF IsGhost(m) THEN start
    ELSE IF m.status = "Finished"
         THEN IF m.timestamp # NoStamp THEN FromIsoFormat(m.timestamp) + duration
              ELSE start + duration
    ELSE NoTime

RECURSIVE SeqMax(_, _)
SeqMax(seq, floor) ==
    IF seq = <<>> THEN floor ELSE SeqMax(Tail(seq), Max2(floor, Head(seq)))

(* lines 241-245: a court is free once its Finished matches are over *)
HoistTimers(ms, finish_times, keys, start) ==
    [c \in {keys[j] : j \in 1..Len(keys)} |->
        LET played == SelectSeq([k \in 1..Len(ms) |-> k],
                                LAMBDA k : ms[k].status = "Finished" /\ ms[k].court = c)
        IN  SeqMax([j \in 1..Len(played) |-> finish_times[played[j]]], start)]

(* min(court_timers, key=court_timers.get): the first key with the least timer *)
BestCourt(keys, court_timers) ==
    LET j == CHOOSE j \in 1..Len(keys) :
                 /\ \A k \in 1..Len(keys) : court_timers[keys[j]] <= court_timers[keys[k]]
                 /\ \A k \in 1..(j - 1) : court_timers[keys[k]] # court_timers[keys[j]]
    IN  keys[j]

(* lines 254-256 and 273-275: finish_times.get(source, start), start without a source *)
SourceReady(finish_times, src_id, start) ==
    IF src_id # NoId
    THEN (IF src_id \in DOMAIN finish_times /\ finish_times[src_id] # NoTime
          THEN finish_times[src_id] ELSE start)
    ELSE start

(* a readiness that never waits for a source *)
ReadyAtOnce(ms, finish_times, mid, start) == start

ReadyAt(ms, finish_times, mid, start) ==
    Max2(SourceReady(finish_times, ms[mid].source_p1, start),
         SourceReady(finish_times, ms[mid].source_p2, start))

(* line 260: the sort key (-criticality, round) *)
SortsBefore(a, b) ==
    \/ a.criticality > b.criticality
    \/ a.criticality = b.criticality /\ a.round < b.round

(* a choice that takes the last of the matches with the best sort key *)
CandidateLastOfTies(ms, ready) ==
    LET j == CHOOSE j \in 1..Len(ready) :
                 /\ \A k \in 1..Len(ready) : ~SortsBefore(ms[ready[k]], ms[ready[j]])
                 /\ \A k \in (j + 1)..Len(ready) : SortsBefore(ms[ready[j]], ms[ready[k]])
    IN  ready[j]

(* lines 260-261: ready.sort(...) is stable; ready[0] *)
Candidate(ms, ready) ==
    LET j == CHOOSE j \in 1..Len(ready) :
                 /\ \A k \in 1..Len(ready) : ~SortsBefore(ms[ready[k]], ms[ready[j]])
                 /\ \A k \in 1..(j - 1) : SortsBefore(ms[ready[j]], ms[ready[k]])
    IN  ready[j]

(* lines 271-278: the earliest readiness after current, NoTime if there is none *)
NextWake(ms, finish_times, unscheduled, start, current) ==
    LET later == SelectSeq([j \in 1..Len(unscheduled) |->
                               ReadyAt(ms, finish_times, unscheduled[j], start)],
                           LAMBDA r : r > current)
    IN  IF later = <<>> THEN NoTime
        ELSE CHOOSE r \in {later[j] : j \in 1..Len(later)} :
                 \A j \in 1..Len(later) : r <= later[j]

(* lines 248-282: st = [ms, finish_times, court_timers, unscheduled] *)
RECURSIVE ScheduleLoop(_, _, _, _, _)
ScheduleLoop(st, keys, start, duration, loop) ==
    IF st.unscheduled = <<>> \/ loop <= 0 THEN st.ms
    ELSE LET best_court == BestCourt(keys, st.court_timers)
             current == st.court_timers[best_court]
             ready == SelectSeq(st.unscheduled,
                                LAMBDA mid : ReadyAt(st.ms, st.finish_times, mid, start)
                                                 <= current)
         IN  IF ready # <<>>
             THEN LET cand == Candidate(st.ms, ready)
                      fin == current + duration
                  IN  ScheduleLoop(
                        [ms |-> [st.ms EXCEPT ![cand].court = best_court,
                                              ![cand].time = FormatTime(current),
                                              ![cand].timestamp = IsoFormat(current),
                                              ![cand].status = "Scheduled"],
                         finish_times |-> [st.finish_times EXCEPT ![cand] = fin],
                         court_timers |-> [st.court_timers EXCEPT ![best_court] = fin],
                         unscheduled |-> SelectSeq(st.unscheduled, LAMBDA mid : mid # cand)],
                        keys, start, duration, loop - 1)
             ELSE LET next_wake == NextWake(st.ms, st.finish_times, st.unscheduled,
                                            start, current)
                  IN  IF next_wake # NoTime
                      THEN ScheduleLoop([st EXCEPT !.court_timers[best_court] = next_wake],
                                        keys, start, duration, loop - 1)
                      ELSE st.ms

(* line 250 raises ValueError when there is a match to place and no court *)
ScheduleRaises(ms, courts) ==
    /\ DictKeys(courts) = <<>>
    /\ \E k \in 1..Len(ms) : ~IsGhost(ms[k]) /\ ms[k].status # "Finished"

update_schedule(ms0, courts, start_time, duration, day) ==
    LET ms == WithCriticality(ms0)
        start == StartInstant(day, start_time)
        keys == DictKeys(courts)
        finish_times == [k \in 1..Len(ms) |-> SeedFinish(ms[k], start, duration)]
        seeded == [k \in 1..Len(ms) |-> SeedMatch(ms[k])]
        unscheduled == SelectSeq([k \in 1..Len(ms) |-> k],
                                 LAMBDA k : finish_times[k] = NoTime)
    IN  ScheduleLoop([ms |-> seeded, finish_times |-> finish_times,
                      court_timers |-> HoistTimers(seeded, finish_times, keys, start),
                      unscheduled |-> unscheduled],
                     keys, start, duration, Len(ms) * 2)

-----------------------------------------------------------------------------
(* routes.py: text handling.  str.strip() and str.split(sep) on strings    *)
(* whose only whitespace is the blank.                                     *)

RECURSIVE LStrip(_)
LStrip(s) == IF Len(s) > 0 /\ SubSeq(s, 1, 1) = " " THEN LStrip(SubSeq(s, 2, Len(s))) ELSE s

RECURSIVE RStrip(_)
RStrip(s) ==
    IF Len(s) > 0 /\ SubSeq(s, Len(s), Len(s)) = " "
    THEN RStrip(SubSeq(s, 1, Len(s) - 1)) ELSE s

Strip(s) == RStrip(LStrip(s))

RECURSIVE SplitFrom(_, _, _, _)
SplitFrom(s, sep, i, cur) ==
    IF i > Len(s) THEN <<cur>>
    ELSE IF SubSeq(s, i, i) = sep THEN <<cur>> \o SplitFrom(s, sep, i + 1, "")
    ELSE SplitFrom(s, sep, i + 1, cur \o SubSeq(s, i, i))

Split(s, sep) == SplitFrom(s, sep, 1, "")

(* [x.strip() for x in text.split(sep) if x.strip()] *)
StrippedItems(text, sep) ==
    LET parts == Split(text, sep)
    IN  SelectSeq([j \in 1..Len(parts) |-> Strip(parts[j])], LAMBDA x : x # "")

(* str(code) of an Optional[str]: <<>> is None, <<c>> the string c *)
Str(code) == IF code = <<>> THEN "None" ELSE code[1]

-----------------------------------------------------------------------------
(* routes.py: the tournaments table and the handlers.  Each action is one  *)
(* request, from the SELECT to the commit.                                 *)

Put(table, id, t) == [k \in DOMAIN table \cup {id} |-> IF k = id THEN t ELSE table[k]]
Remove(table, id) == [k \in DOMAIN table \ {id} |-> table[k]]

Horizon == 3

(* the model follows the tournament while its schedule ends within Horizon *)
(* minutes of its start time                                              *)
WithinHorizon(t) ==
    \A k \in 1..Len(t.matches) :
        t.matches[k].timestamp # NoStamp
            => FromIsoFormat(t.matches[k].timestamp)
                   <= StartInstant(today, t.start_time) + Horizon

Recomputed(t, day) ==
    [t EXCEPT !.matches = update_schedule(t.matches, t.courts, t.start_time,
                                          t.match_duration, day)]

(* lines 81-104; get_current_user rejects a caller who is no admin *)
CreateTournament(id, is_admin, data) ==
    /\ id \notin DOMAIN db
    /\ UNCHANGED <<today, flight>>
    /\ IF ~is_admin THEN resp' = "401" /\ UNCHANGED db
       ELSE LET teams_list == StrippedItems(data.teams, "\n")
                t == [id |-> id, name |-> data.name, code |-> data.code,
                      type |-> data.type, start_time |-> data.start_time,
                      match_duration |-> data.duration, teams |-> teams_list,
                      courts |-> StrippedItems(data.courts, ","), date |-> data.date,
                      matches |-> refresh_bracket(generate_structure(teams_list, data.type))]
            IN  IF ScheduleRaises(t.matches, t.courts)
                THEN resp' = "500" /\ UNCHANGED db
                ELSE LET stored == Recomputed(t, today) IN
                     /\ WithinHorizon(stored)
                     /\ db' = Put(db, id, stored)
                     /\ resp' = "ok"

(* a settings update that forgets the format when it decides to regenerate *)
TeamsDiffer(t, data) == t.teams # StrippedItems(data.teams, "\n")

(* line 132 *)
NeedsRegeneration(t, data) ==
    t.type # data.type \/ t.teams # StrippedItems(data.teams, "\n")

(* lines 120-148 *)
UpdateSettings(id, is_admin, data) ==
    /\ UNCHANGED <<today, flight>>
    /\ IF ~is_admin THEN resp' = "401" /\ UNCHANGED db
       ELSE IF id \notin DOMAIN db THEN resp' = "404 Not found" /\ UNCHANGED db
       ELSE LET t == db[id]
                new_teams == StrippedItems(data.teams, "\n")
                t1 == IF NeedsRegeneration(t, data)
                      THEN [t EXCEPT !.type = data.type, !.teams = new_teams,
                                     !.matches = refresh_bracket(
                                         generate_structure(new_teams, data.type))]
                      ELSE t
                t2 == [t1 EXCEPT !.name = data.name, !.code = data.code,
                                 !.date = data.date, !.start_time = data.start_time,
                                 !.match_duration = data.duration,
                                 !.courts = StrippedItems(data.courts, ",")]
            IN  IF ScheduleRaises(t2.matches, t2.courts)
                THEN resp' = "500" /\ UNCHANGED db
                ELSE LET stored == Recomputed(t2, today) IN
                     /\ WithinHorizon(stored)
                     /\ db' = Put(db, id, stored)
                     /\ resp' = "ok"

(* lines 151-158 *)
DeleteTournament(id, is_admin) ==
    /\ UNCHANGED <<today, flight>>
    /\ IF ~is_admin THEN resp' = "401" /\ UNCHANGED db
       ELSE db' = Remove(db, id) /\ resp' = "ok"

(* lines 196-197 and 205-206 *)
RECURSIVE SetsWon(_, _)
SetsWon(sets, side) ==
    IF sets = <<>> THEN 0
    ELSE (IF side = 1 /\ Head(sets).p1 > Head(sets).p2 THEN 1
          ELSE IF side = 2 /\ Head(sets).p2 > Head(sets).p1 THEN 1 ELSE 0)
         + SetsWon(Tail(sets), side)

RECURSIVE Points(_, _)
Points(sets, side) ==
    IF sets = <<>> THEN 0
    ELSE (IF side = 1 THEN Head(sets).p1 ELSE Head(sets).p2) + Points(Tail(sets), side)

(* a winner rule that never looks at the points: level sets go to p2 *)
SetsDecideAlone(sets) == IF SetsWon(sets, 1) > SetsWon(sets, 2) THEN 1 ELSE 2

(* lines 200-212: 1 or 2 for the winning slot, 0 when line 212 raises *)
WinningSide(sets) ==
    LET p1s == SetsWon(sets, 1)
        p2s == SetsWon(sets, 2)
        p1p == Points(sets, 1)
        p2p == Points(sets, 2)
    IN  IF p1s > p2s THEN 1
        ELSE IF p2s > p1s THEN 2
        ELSE IF p1p > p2p THEN 1
        ELSE IF p2p > p1p THEN 2
        ELSE 0

(* a clear that forgets the set counts *)
ClearKeepsSetCounts(match, report) ==
    IF report.clear
    THEN [match EXCEPT !.winner = None, !.sets = <<>>, !.status = "Pending"]
    ELSE IF report.sets # <<>>
         THEN [match EXCEPT !.sets = report.sets,
                            !.p1_sets = SetsWon(report.sets, 1),
                            !.p2_sets = SetsWon(report.sets, 2),
                            !.winner = IF WinningSide(report.sets) = 1 THEN match.p1
                                       ELSE match.p2,
                            !.status = "Finished"]
         ELSE match

(* lines 187-215: the match after the report is applied to it *)
ApplyReport(match, report) ==
    IF report.clear
    THEN [match EXCEPT !.winner = None, !.sets = <<>>, !.p1_sets = 0, !.p2_sets = 0,
                       !.status = "Pending"]
    ELSE IF report.sets # <<>>
         THEN [match EXCEPT !.sets = report.sets,
                            !.p1_sets = SetsWon(report.sets, 1),
                            !.p2_sets = SetsWon(report.sets, 2),
                            !.winner = IF WinningSide(report.sets) = 1 THEN match.p1
                                       ELSE match.p2,
                            !.status = "Finished"]
         ELSE match

(* line 212 *)
ReportRaisesTie(report) ==
    ~report.clear /\ report.sets # <<>> /\ WinningSide(report.sets) = 0

(* line 180 *)
CodeRejected(t, report, is_admin) ==
    Strip(Str(report.code)) # Strip(Str(<<t.code>>)) /\ ~is_admin

(* lines 187-217: the report applied to its match, then refresh_bracket *)
Scored(t, report) ==
    [t EXCEPT !.matches = refresh_bracket([t.matches EXCEPT ![report.id] =
                                              ApplyReport(@, report)])]

(* a report handler that writes the sets of a tied sheet before it answers *)
ReportScoreStoresTie(id, is_admin, report) ==
    /\ UNCHANGED <<today, flight>>
    /\ IF id \notin DOMAIN db THEN resp' = "404 Not found" /\ UNCHANGED db
       ELSE LET t == db[id] IN
            IF CodeRejected(t, report, is_admin)
            THEN resp' = "403 Invalid Code" /\ UNCHANGED db
            ELSE IF report.id \notin DOMAIN t.matches
            THEN resp' = "404 Match not found" /\ UNCHANGED db
            ELSE IF ReportRaisesTie(report)
            THEN /\ resp' = "400 Tie"
                 /\ db' = Put(db, id, [t EXCEPT !.matches[report.id].sets = report.sets])
            ELSE LET t1 == Scored(t, report)
                 IN  IF ScheduleRaises(t1.matches, t1.courts)
                     THEN resp' = "500" /\ UNCHANGED db
                     ELSE LET stored == Recomputed(t1, today) IN
                          /\ WithinHorizon(stored)
                          /\ db' = Put(db, id, stored)
                          /\ resp' = "ok"

(* lines 161-222 *)
ReportScore(id, is_admin, report) ==
    /\ UNCHANGED <<today, flight>>
    /\ IF id \notin DOMAIN db THEN resp' = "404 Not found" /\ UNCHANGED db
       ELSE LET t == db[id] IN
            IF CodeRejected(t, report, is_admin)
            THEN resp' = "403 Invalid Code" /\ UNCHANGED db
            ELSE IF report.id \notin DOMAIN t.matches
            THEN resp' = "404 Match not found" /\ UNCHANGED db
            ELSE IF ReportRaisesTie(report) THEN resp' = "400 Tie" /\ UNCHANGED db
            ELSE LET t1 == Scored(t, report)
                 IN  IF ScheduleRaises(t1.matches, t1.courts)
                     THEN resp' = "500" /\ UNCHANGED db
                     ELSE LET stored == Recomputed(t1, today) IN
                          /\ WithinHorizon(stored)
                          /\ db' = Put(db, id, stored)
                          /\ resp' = "ok"

EmptyTable == [k \in {} |-> k]

(* the handlers are coroutines of one event loop: a request is at one of   *)
(* its suspension points, or not there                                     *)
Callers == {"r1", "r2"}

NoBody == [clear |-> FALSE]

Idle ==
    [kind |-> "none", id |-> "", is_admin |-> FALSE, body |-> NoBody, pc |-> "idle",
     outcome |-> "none", sent |-> <<>>, seen |-> EmptyTable]

Init ==
    /\ db = EmptyTable
    /\ resp = "none"
    /\ today = 0
    /\ flight = [r \in Callers |-> Idle]

-----------------------------------------------------------------------------
(* The requests the specifications draw from. *)

TournamentIds == {"t1"}

(* TournamentCreate: the body of a create or settings request *)
Settings(teams, types, courts, durations, start_times, codes) ==
    [name : {"Cup"}, date : {"2026-01-01"}, code : codes, type : types,
     courts : courts, duration : durations, start_time : start_times, teams : teams]

(* ScoreReport *)
Reports(ids, sheets, codes) ==
    [id : ids, sets : sheets, code : codes, clear : {FALSE}]
        \cup [id : ids, sets : {<<>>}, code : codes, clear : {TRUE}]

P1Wins == <<[p1 |-> 25, p2 |-> 20]>>
P2Wins == <<[p1 |-> 20, p2 |-> 25]>>

(* the matches shown with a number: the ones the schedule lists *)
Numbered(id) ==
    IF id \in DOMAIN db
    THEN {k \in DOMAIN db[id].matches : db[id].matches[k].number # NoId}
    ELSE {}

-----------------------------------------------------------------------------
(* Spec: an admin creates a tournament of 2 to 4 teams, reports and clears *)
(* scores of the numbered matches, changes the settings and deletes; the   *)
(* clock stays within day 0.                                               *)

TeamTexts == {"A\nB", "A\nB\nC", "A\nB\nC\nD"}
CourtTexts == {"c1", "c1,c2"}
Durations == {1, 2}
StartTimes == {<<0, 0>>}

SpecData == Settings(TeamTexts, {"single", "double"}, CourtTexts, Durations, StartTimes, {"k"})
SpecReports(id) == Reports(Numbered(id), {P1Wins, P2Wins}, {<<>>})

Next ==
    \E id \in TournamentIds :
        \/ \E data \in SpecData : CreateTournament(id, TRUE, data)
        \/ \E data \in SpecData : UpdateSettings(id, TRUE, data)
        \/ \E report \in SpecReports(id) : ReportScore(id, TRUE, report)
        \/ DeleteTournament(id, TRUE)

Spec == Init /\ [][Next]_vars

-----------------------------------------------------------------------------
(* SpecSettings: settings updates between the formats of 2 and 3 teams and *)
(* the single elimination of 4, with scores reported in between.           *)

SettingsData ==
    Settings({"A\nB", "A\nB\nC"}, {"single", "double"}, CourtTexts, Durations, StartTimes, {"k"})
        \cup Settings({"A\nB\nC\nD"}, {"single"}, CourtTexts, Durations, StartTimes, {"k"})

NextSettings ==
    \E id \in TournamentIds :
        \/ \E data \in SettingsData : CreateTournament(id, TRUE, data)
        \/ \E data \in SettingsData : UpdateSettings(id, TRUE, data)
        \/ \E report \in SpecReports(id) : ReportScore(id, TRUE, report)
        \/ DeleteTournament(id, TRUE)

SpecSettings == Init /\ [][NextSettings]_vars

-----------------------------------------------------------------------------
(* SpecByes: a 3-team tournament, whose first match is a bye; an admin     *)
(* reports and clears scores of the winners-bracket matches, the bye       *)
(* match included, and of the grand final.                                 *)

WinnersBracket(id) ==
    IF id \in DOMAIN db
    THEN {k \in DOMAIN db[id].matches : db[id].matches[k].bracket \in {"winners", "finals"}}
    ELSE {}

ByesData == Settings({"A\nB\nC"}, {"single", "double"}, {"c1,c2"}, {1}, StartTimes, {"k"})
ByesReports(id) == Reports(WinnersBracket(id), {P1Wins, P2Wins}, {<<>>})

NextByes ==
    \E id \in TournamentIds :
        \/ \E data \in ByesData : CreateTournament(id, TRUE, data)
        \/ \E report \in ByesReports(id) : ReportScore(id, TRUE, report)
        \/ DeleteTournament(id, TRUE)

SpecByes == Init /\ [][NextByes]_vars

-----------------------------------------------------------------------------
(* SpecCourts: tournaments of 3 and 4 teams on 1 to MaxCourts courts.      *)

MaxCourts == 6

CourtNames == <<"c1", "c2", "c3", "c4", "c5", "c6", "c7", "c8">>

RECURSIVE CourtText(_)
CourtText(n) == IF n = 1 THEN CourtNames[1] ELSE CourtText(n - 1) \o "," \o CourtNames[n]

CourtsData ==
    Settings({"A\nB\nC", "A\nB\nC\nD"}, {"single", "double"},
             {CourtText(n) : n \in 1..MaxCourts}, {1}, StartTimes, {"k"})

NextCourts ==
    \E id \in TournamentIds :
        \/ \E data \in CourtsData : CreateTournament(id, TRUE, data)
        \/ \E report \in SpecReports(id) : ReportScore(id, TRUE, report)
        \/ DeleteTournament(id, TRUE)

SpecCourts == Init /\ [][NextCourts]_vars

-----------------------------------------------------------------------------
(* SpecApi: every kind of caller and request against small tournaments:    *)
(* admins and others, right and wrong codes, unknown match ids, tied and   *)
(* empty score sheets, team texts with fewer than two names, no court.     *)

ApiTeamTexts == {"", "A", " A \n\nB ", "A\nB\nC"}
ApiCourtTexts == {"c1", " , "}
ApiCodes == {" k", "None"}
ApiReportCodes == {<<>>, <<"k ">>, <<"x">>}
ApiMatchIds == 1..4
TiedSheet == <<[p1 |-> 25, p2 |-> 20], [p1 |-> 20, p2 |-> 25], [p1 |-> 15, p2 |-> 15]>>
ApiSheets == {<<>>, P1Wins, P2Wins, TiedSheet}

ApiData == Settings(ApiTeamTexts, {"single"}, ApiCourtTexts, {1}, StartTimes, ApiCodes)
ApiReports == Reports(ApiMatchIds, ApiSheets, ApiReportCodes)

NextApi ==
    \E id \in TournamentIds, is_admin \in BOOLEAN :
        \/ \E data \in ApiData : CreateTournament(id, is_admin, data)
        \/ \E data \in ApiData : UpdateSettings(id, is_admin, data)
        \/ \E report \in ApiReports : ReportScore(id, is_admin, report)
        \/ DeleteTournament(id, is_admin)

SpecApi == Init /\ [][NextApi]_vars

-----------------------------------------------------------------------------
(* SpecScore: an admin reports every score sheet of up to MaxSets sets on  *)
(* the one match of a 2-team tournament.                                   *)

MaxSets == 2

(* sets won 2-0 and lost 0-1 or 0-3, and a set drawn 1-1 that neither side takes *)
SetResults ==
    {[p1 |-> 2, p2 |-> 0], [p1 |-> 1, p2 |-> 1], [p1 |-> 0, p2 |-> 1], [p1 |-> 0, p2 |-> 3]}

ScoreSheets == UNION {[1..n -> SetResults] : n \in 0..MaxSets}

ScoreData == Settings({"A\nB"}, {"single", "double"}, CourtTexts, {1}, StartTimes, {"k"})
ScoreReports == Reports({1}, ScoreSheets, {<<>>})

NextScore ==
    \E id \in TournamentIds :
        \/ \E data \in ScoreData : CreateTournament(id, TRUE, data)
        \/ \E report \in ScoreReports : ReportScore(id, TRUE, report)
        \/ DeleteTournament(id, TRUE)

SpecScore == Init /\ [][NextScore]_vars

-----------------------------------------------------------------------------
(* Properties of the stored tournaments.                                   *)

Assigned(m) == m.court # None /\ m.timestamp # NoStamp
StartOf(m) == FromIsoFormat(m.timestamp)
MatchesOf(id) == {db[id].matches[k] : k \in 1..Len(db[id].matches)}

(* C1: the scheduler honors dependencies: for every two matches A and B of *)
(* a stored tournament that both carry a court and a timestamp, with       *)
(* A.next_win = B or A.next_loss = B, B starts at or after A's start plus  *)
(* match_duration.                                                         *)
C1_DependenciesHonored ==
    \A id \in DOMAIN db : \A a, b \in MatchesOf(id) :
        (Assigned(a) /\ Assigned(b) /\ (a.next_win = b.id \/ a.next_loss = b.id))
            => StartOf(b) >= StartOf(a) + db[id].match_duration

(* C2: no court is double-booked: any two distinct matches of a stored     *)
(* tournament that are assigned the same court occupy disjoint intervals   *)
(* [timestamp, timestamp + match_duration).                                *)
C2_NoCourtDoubleBooked ==
    \A id \in DOMAIN db : \A a, b \in MatchesOf(id) :
        (a.id # b.id /\ Assigned(a) /\ Assigned(b) /\ a.court = b.court)
            => \/ StartOf(a) + db[id].match_duration <= StartOf(b)
               \/ StartOf(b) + db[id].match_duration <= StartOf(a)

(* C3: update_schedule assigns every schedulable match: in a stored        *)
(* tournament with at least one court, every match that is neither a ghost *)
(* nor Finished is Scheduled with a court, a time and a timestamp.         *)
C3_EverySchedulableMatchAssigned ==
    \A id \in DOMAIN db : \A m \in MatchesOf(id) :
        (db[id].courts # <<>> /\ ~IsGhost(m) /\ m.status # "Finished")
            => /\ m.status = "Scheduled"
               /\ m.court # None
               /\ m.time # NoStamp
               /\ m.timestamp # NoStamp

(* the matches reachable from match k through next_win / next_loss; a link *)
(* always leads to a match created later, so the recursion ends            *)
RECURSIVE Downstream(_, _)
Downstream(ms, k) ==
    LET direct == {j \in {ms[k].next_win, ms[k].next_loss} : j # NoId /\ j > k}
    IN  direct \cup UNION {Downstream(ms, j) : j \in direct}

AllReported(t) == \A k \in 1..Len(t.matches) : t.matches[k].status = "Finished"

(* C4: stale results are invalidated downstream: in a 4-team double-       *)
(* elimination tournament whose matches are all Finished, a step that      *)
(* leaves a winners-bracket round-1 match Finished with another winner     *)
(* leaves every match downstream of it not Finished, with no winner, no    *)
(* sets and p1_sets = p2_sets = 0.                                         *)
C4_StaleResultsInvalidated ==
    [][\A id \in DOMAIN db \cap DOMAIN db' :
        LET t == db[id]
            u == db'[id]
        IN  (/\ t.type = "double" /\ Len(t.teams) = 4 /\ AllReported(t)
             /\ u.type = t.type /\ u.teams = t.teams)
            => \A k \in 1..Len(t.matches) :
                 (/\ t.matches[k].bracket = "winners" /\ t.matches[k].round = 1
                  /\ u.matches[k].status = "Finished"
                  /\ u.matches[k].winner \notin {None, t.matches[k].winner})
                 => \A j \in Downstream(u.matches, k) :
                      /\ u.matches[j].status # "Finished"
                      /\ u.matches[j].winner = None
                      /\ u.matches[j].sets = <<>>
                      /\ u.matches[j].p1_sets = 0
                      /\ u.matches[j].p2_sets = 0]_vars

Unresolved(m) == m.p1 = None \/ m.p2 = None

(* C5: a score report (not a clear) on a match whose p1 or p2 slot is      *)
(* unresolved ends in an error outcome and leaves the stored tournament    *)
(* unchanged.                                                              *)
C5_UnresolvedReportRejected ==
    [][\A id \in DOMAIN db : \A report \in ApiReports :
        (/\ ~report.clear
         /\ report.id \in DOMAIN db[id].matches
         /\ Unresolved(db[id].matches[report.id])
         /\ ReportScore(id, TRUE, report))
        => resp' # "ok" /\ db' = db]_vars

(* the score sheet read directly: sets taken and points scored by a side  *)
SetsTaken(sets, side) ==
    Cardinality({i \in 1..Len(sets) :
                    IF side = 1 THEN sets[i].p1 > sets[i].p2 ELSE sets[i].p2 > sets[i].p1})

RECURSIVE PointsUpTo(_, _, _)
PointsUpTo(sets, side, n) ==
    IF n = 0 THEN 0
    ELSE PointsUpTo(sets, side, n - 1) + (IF side = 1 THEN sets[n].p1 ELSE sets[n].p2)

PointsScored(sets, side) == PointsUpTo(sets, side, Len(sets))

Level(sets) ==
    /\ SetsTaken(sets, 1) = SetsTaken(sets, 2)
    /\ PointsScored(sets, 1) = PointsScored(sets, 2)

(* C6: score evaluation in report_score: a report that stores a non-empty  *)
(* score sheet, not level, on a match with both slots resolved leaves the  *)
(* match Finished, p1_sets and p2_sets the numbers of sets each side took, *)
(* and as winner the side with more sets or, with equal sets, the side     *)
(* with more points.                                                       *)
C6_ScoreEvaluation ==
    [][\A id \in DOMAIN db : \A report \in ScoreReports :
        LET m == db[id].matches[report.id]
            s1 == SetsTaken(report.sets, 1)
            s2 == SetsTaken(report.sets, 2)
            more == PointsScored(report.sets, 1) > PointsScored(report.sets, 2)
        IN  (/\ ~report.clear /\ report.sets # <<>>
             /\ ~Unresolved(m) /\ ~Level(report.sets)
             /\ id \in DOMAIN db' /\ db'[id].matches[report.id].sets = report.sets
             /\ ReportScore(id, TRUE, report))
            => /\ resp' = "ok"
               /\ LET n == db'[id].matches[report.id]
                  IN  /\ n.status = "Finished"
                      /\ n.p1_sets = s1
                      /\ n.p2_sets = s2
                      /\ n.winner = IF s1 > s2 THEN m.p1
                                    ELSE IF s2 > s1 THEN m.p2
                                    ELSE IF more THEN m.p1 ELSE m.p2]_vars

(* a stored match that points decided for p1 and one they decided for p2  *)
C6_PointsDecided ==
    \E id \in DOMAIN db : \E m \in MatchesOf(id) :
        /\ m.status = "Finished" /\ Len(m.sets) = 2
        /\ m.p1_sets = 1 /\ m.p2_sets = 1
        /\ m.winner = m.p1
        /\ PointsScored(m.sets, 1) > PointsScored(m.sets, 2)

(* C7: tie rejection: a score report of an admin on an existing match      *)
(* whose sheet is level (equal sets and equal points, the empty sheet      *)
(* included) ends in the Tied outcome and leaves the stored tournament     *)
(* unchanged.                                                              *)
C7_LevelSheetRejected ==
    [][\A id \in DOMAIN db : \A report \in ApiReports :
        (/\ ~report.clear
         /\ report.id \in DOMAIN db[id].matches
         /\ Level(report.sets)
         /\ ReportScore(id, TRUE, report))
        => resp' = "400 Tie" /\ db' = db]_vars

CodeMatches(t, report) ==
    report.code # <<>> /\ Strip(report.code[1]) = Strip(t.code)

(* C8: a score report of a caller who is no admin is rejected with Invalid *)
(* Code, the stored tournament unchanged, unless the request carries a     *)
(* code equal to the tournament's code after trimming both; with such a    *)
(* code it is not rejected for its code.                                   *)
C8_ReportNeedsAdminOrCode ==
    [][\A id \in DOMAIN db : \A report \in ApiReports :
        ReportScore(id, FALSE, report)
        => IF CodeMatches(db[id], report)
           THEN resp' # "403 Invalid Code"
           ELSE resp' = "403 Invalid Code" /\ db' = db]_vars

(* C9: no tournament is ever stored with fewer than 2 teams or with an     *)
(* empty match list.                                                       *)
C9_AtLeastTwoTeamsStored ==
    \A id \in DOMAIN db : Len(db[id].teams) >= 2 /\ db[id].matches # <<>>

(* what create stores for the settings of tournament u *)
AsCreated(u, day) ==
    update_schedule(refresh_bracket(generate_structure(u.teams, u.type)),
                    u.courts, u.start_time, u.match_duration, day)

Results(m) ==
    <<m.p1, m.p2, m.winner, m.sets, m.p1_sets, m.p2_sets, m.number, m.p1_label, m.p2_label>>

(* tournament u holds what every settings update takes from its request *)
Holds(u, data) ==
    /\ u.match_duration = data.duration /\ u.start_time = data.start_time
    /\ u.code = data.code /\ u.name = data.name /\ u.date = data.date
    /\ u.courts = StrippedItems(data.courts, ",")

(* C10: a settings update that is stored regenerates the match list if and *)
(* only if the team list or the format differs from the stored one, and    *)
(* always re-runs the scheduler: the tournament takes the request's teams  *)
(* and format; with a change the matches are those of a newly created      *)
(* tournament; without one, p1, p2, winner, sets, p1_sets,                 *)
(* p2_sets, number and labels of every match are unchanged and Finished    *)
(* matches stay Finished; either way every Scheduled match is on a court   *)
(* of the new court list, not before the new start time.                   *)
C10_SettingsRegenerateIffChanged ==
    [][\A id \in DOMAIN db \cap DOMAIN db' : \A data \in SettingsData :
        LET t == db[id]
            u == db'[id]
            changed == t.type # data.type \/ t.teams # StrippedItems(data.teams, "\n")
        IN  (resp' = "ok" /\ Holds(u, data) /\ UpdateSettings(id, TRUE, data))
            => /\ u.type = data.type
               /\ u.teams = StrippedItems(data.teams, "\n")
               /\ changed => u.matches = AsCreated(u, today)
               /\ ~changed =>
                    /\ Len(u.matches) = Len(t.matches)
                    /\ \A k \in 1..Len(t.matches) :
                         /\ Results(u.matches[k]) = Results(t.matches[k])
                         /\ t.matches[k].status = "Finished"
                                => u.matches[k].status = "Finished"
               /\ \A k \in 1..Len(u.matches) :
                    u.matches[k].status = "Scheduled"
                        => /\ \E c \in 1..Len(u.courts) : u.courts[c] = u.matches[k].court
                           /\ StartOf(u.matches[k]) >= StartInstant(today, u.start_time)]_vars

(* a Finished match that kept its results and its court through a settings *)
(* update that took the court off the list                                 *)
C10_ResultKeptOffCourt ==
    \E id \in DOMAIN db : \E m \in MatchesOf(id) :
        /\ m.status = "Finished" /\ m.sets # <<>> /\ m.court # None
        /\ \A c \in 1..Len(db[id].courts) : db[id].courts[c] # m.court

(* refresh_bracket followed by update_schedule, as every handler runs them *)
Rerun(t, day) ==
    update_schedule(refresh_bracket(t.matches), t.courts, t.start_time,
                    t.match_duration, day)

(* C11: Resolver and Scheduler are idempotent with the clock held: running *)
(* refresh_bracket and then update_schedule on a stored tournament, with   *)
(* its own start_time, duration and courts and the same date, leaves every *)
(* field of every match as it is.                                          *)
C11_RerunChangesNothing ==
    \A id \in DOMAIN db :
        ~ScheduleRaises(refresh_bracket(db[id].matches), db[id].courts)
            => Rerun(db[id], today) = db[id].matches

(* a tournament with a played match and a match still to play, on which    *)
(* the re-run changes nothing                                              *)
C11_RerunOnPlayedTournament ==
    \E id \in DOMAIN db : \E a, b \in MatchesOf(id) :
        /\ a.status = "Finished" /\ a.sets # <<>>
        /\ b.status = "Scheduled"
        /\ Rerun(db[id], today) = db[id].matches

(* the tournament a report of an admin stores, when it stores one *)
AfterReport(t, report, day) == Recomputed(Scored(t, report), day)

Answered(t, report) ==
    ~ReportRaisesTie(report) /\ ~ScheduleRaises(Scored(t, report).matches, t.courts)

SameScore(m) == [id |-> m.id, sets |-> m.sets, code |-> <<>>, clear |-> FALSE]

(* C12: for any Finished match m of a stored tournament, a report with     *)
(* exactly the sets m already stores leaves every other match unchanged in *)
(* all fields.                                                             *)
C12_SameScoreLeavesOthers ==
    \A id \in DOMAIN db : \A k \in DOMAIN db[id].matches :
        LET t == db[id]
            report == SameScore(t.matches[k])
        IN  (t.matches[k].status = "Finished" /\ Answered(t, report))
            => \A j \in DOMAIN t.matches :
                 j # k => AfterReport(t, report, today).matches[j] = t.matches[j]

ScoreOf(k, sets) == [id |-> k, sets |-> sets, code |-> <<>>, clear |-> FALSE]
ClearOf(k) == [id |-> k, sets |-> <<>>, code |-> <<>>, clear |-> TRUE]

(* a match list without the scheduling stamps *)
Unstamped(ms) ==
    [k \in DOMAIN ms |-> [ms[k] EXCEPT !.court = None, !.time = NoStamp,
                                       !.timestamp = NoStamp]]

(* the matches after a score on match k and then a clear of match k *)
ReportThenClear(t, k, sets, day) ==
    AfterReport(AfterReport(t, ScoreOf(k, sets), day), ClearOf(k), day).matches

NoGhostScored(t) ==
    \A k \in DOMAIN t.matches : IsGhost(t.matches[k]) => t.matches[k].sets = <<>>

C14_ClearResetsMatch ==
    \A id \in DOMAIN db : \A k \in DOMAIN db[id].matches :
        Answered(db[id], ClearOf(k))
            => LET m == AfterReport(db[id], ClearOf(k), today).matches[k]
               IN  /\ m.winner = None
                   /\ m.sets = <<>>
                   /\ m.p1_sets = 0 /\ m.p2_sets = 0
                   /\ m.status # "Finished"

C16_GhostsUnnumberedUnscheduled ==
    \A id \in DOMAIN db : \A m \in MatchesOf(id) :
        IsGhost(m) => m.number = 0 /\ m.time = NoStamp /\ m.court = None

(* the positions of the matches of a list that are not ghosts *)
Live(ms) == {k \in DOMAIN ms : ~IsGhost(ms[k])}

(* C17: in every stored tournament the numbers of the non-ghost matches    *)
(* are exactly 1..k, without duplicates or gaps, and increase with the     *)
(* match id.                                                               *)
C17_NumbersDenseAndMonotone ==
    \A id \in DOMAIN db :
        LET ms == db[id].matches IN
        /\ {ms[k].number : k \in Live(ms)} = 1..Cardinality(Live(ms))
        /\ \A a, b \in Live(ms) : a < b => ms[a].number < ms[b].number

(* after a report, a bracket with a ghost before its first numbered match  *)
(* and another ghost between numbered matches                              *)
C17_NumbersSkipGhosts ==
    \E id \in DOMAIN db :
        LET ms == db[id].matches IN
        /\ \E k \in DOMAIN ms : ms[k].sets # <<>>
        /\ \E g, h \in DOMAIN ms \ Live(ms) : \E a, b \in Live(ms) :
               g < a /\ a < h /\ h < b /\ ms[a].number = 1 /\ ms[b].number > ms[a].number

(* the display numbers of a match list, by position *)
Numbers(ms) == [k \in DOMAIN ms |-> ms[k].number]

(* C18: display numbers are stable: a score or a clear on any match of a   *)
(* stored tournament leaves the number of every match as it was, and so    *)
(* the set of ghost matches as it was.                                     *)
C18_NumbersStable ==
    \A id \in DOMAIN db : \A k \in DOMAIN db[id].matches :
        \A report \in {ScoreOf(k, P1Wins), ScoreOf(k, P2Wins), ClearOf(k)} :
            Answered(db[id], report)
                => LET after == AfterReport(db[id], report, today).matches
                   IN  /\ Numbers(after) = Numbers(db[id].matches)
                       /\ Live(after) = Live(db[id].matches)

-----------------------------------------------------------------------------
(* SpecBrackets: an admin creates a tournament of 2 to MaxTeams teams in   *)
(* either format, reports and clears scores on the first-round matches     *)
(* that are played, and deletes the tournament.  Matches of duration 0     *)
(* keep every schedule at the start time, so brackets of every size stay   *)
(* within Horizon.                                                         *)

MaxTeams == 7

TeamNames == <<"A", "B", "C", "D", "E", "F", "G", "H", "I", "J">>

RECURSIVE TeamText(_)
TeamText(n) == IF n = 1 THEN TeamNames[1] ELSE TeamText(n - 1) \o "\n" \o TeamNames[n]

BracketsData ==
    Settings({TeamText(n) : n \in 2..MaxTeams}, {"single", "double"}, CourtTexts, {0},
             StartTimes, {"k"})

FirstRound(id) ==
    {k \in Numbered(id) : db[id].matches[k].bracket = "winners" /\ db[id].matches[k].round = 1}

BracketsReports(id) == Reports(FirstRound(id), {P1Wins, P2Wins}, {<<>>})

NextBrackets ==
    \E id \in TournamentIds :
        \/ \E data \in BracketsData : CreateTournament(id, TRUE, data)
        \/ \E report \in BracketsReports(id) : ReportScore(id, TRUE, report)
        \/ DeleteTournament(id, TRUE)

SpecBrackets == Init /\ [][NextBrackets]_vars

(* the dependency edges of a match list, by position *)
Edges(ms) ==
    [k \in DOMAIN ms |->
        [source_p1 |-> ms[k].source_p1, source_p1_type |-> ms[k].source_p1_type,
         source_p2 |-> ms[k].source_p2, source_p2_type |-> ms[k].source_p2_type,
         next_win |-> ms[k].next_win, next_loss |-> ms[k].next_loss]]

(* exactly one source slot of x names match k with the given type *)
OneSlotNames(x, k, type) ==
    (x.source_p1 = k /\ x.source_p1_type = type)
        # (x.source_p2 = k /\ x.source_p2_type = type)

(* forward and backward edges mirror each other *)
Dual(ms) ==
    \A k, x \in DOMAIN ms :
        /\ ms[k].next_win = x <=> OneSlotNames(ms[x], k, "winner")
        /\ ms[k].next_loss = x <=> OneSlotNames(ms[x], k, "loser")

(* every edge ends at a match of the list *)
EdgesInside(ms) ==
    \A k \in DOMAIN ms :
        {ms[k].next_win, ms[k].next_loss, ms[k].source_p1, ms[k].source_p2}
            \subseteq DOMAIN ms \cup {NoId}

(* C19: in the bracket generate_structure produces for 2 or more teams,    *)
(* single or double, next_win (next_loss) of a match is x exactly when     *)
(* exactly one source slot of x names that match with type winner (loser); *)
(* a slot written by two matches would leave the first without its mirror; *)
(* and the stored tournament keeps the generated edges through every       *)
(* Resolver and Scheduler run and every score report.                      *)
C19_EdgesDualAndFixed ==
    \A id \in DOMAIN db :
        LET generated == generate_structure(db[id].teams, db[id].type) IN
        /\ Dual(generated) /\ EdgesInside(generated)
        /\ Edges(db[id].matches) = Edges(generated)

(* a double bracket of 8 matches or more with a result reported, whose     *)
(* losers bracket is fed by winners-bracket rounds 1 and 2                 *)
C19_DoubleBracketPlayed ==
    \E id \in DOMAIN db : \E a, b, c \in MatchesOf(id) :
        /\ db[id].type = "double" /\ Len(db[id].matches) >= 8
        /\ a.bracket = "winners" /\ a.round = 2 /\ a.next_loss # NoId
        /\ b.bracket = "losers" /\ b.source_p2 = a.id /\ b.source_p2_type = "loser"
        /\ c.status = "Finished" /\ c.sets # <<>> /\ c.next_loss # NoId

(* the matches that next_win and next_loss of the matches in from lead to *)
Successors(ms, from) ==
    {x \in DOMAIN ms : \E k \in from : ms[k].next_win = x \/ ms[k].next_loss = x}

(* the matches reachable from the set seen in at most n further steps *)
RECURSIVE Closure(_, _, _)
Closure(ms, seen, n) ==
    LET more == seen \cup Successors(ms, seen)
    IN  IF n = 0 \/ more = seen THEN seen ELSE Closure(ms, more, n - 1)

(* the transitive successors of match k *)
Reachable(ms, k) == Closure(ms, Successors(ms, {k}), Len(ms))

(* C20: in the bracket generate_structure produces, and in the stored      *)
(* tournament, no match is reachable from itself along next_win and        *)
(* next_loss, and each source of a match is a match with a smaller id.     *)
C20_AcyclicAndTopological ==
    \A id \in DOMAIN db :
        \A ms \in {generate_structure(db[id].teams, db[id].type), db[id].matches} :
            \A k \in DOMAIN ms :
                /\ k \notin Reachable(ms, k)
                /\ ms[k].source_p1 # NoId => ms[k].source_p1 < ms[k].id
                /\ ms[k].source_p2 # NoId => ms[k].source_p2 < ms[k].id

(* a double bracket in which a first-round match reaches the final along   *)
(* two routes, through the winners bracket and through the losers bracket  *)
C20_FinalReachedBothWays ==
    \E id \in DOMAIN db :
        LET ms == db[id].matches IN
        \E k, f \in DOMAIN ms :
            /\ ms[k].bracket = "winners" /\ ms[k].round = 1 /\ ms[f].bracket = "finals"
            /\ Len(ms) >= 14
            /\ f \in Reachable(ms, ms[k].next_win) /\ f \in Reachable(ms, ms[k].next_loss)
            /\ ms[k].next_loss \notin Reachable(ms, ms[k].next_win)
            /\ ms[k].sets # <<>>

(* the stored criticality of the match with the given id, 0 for no match *)
CriticalityOf(ms, mid) == IF mid \in DOMAIN ms THEN ms[mid].criticality ELSE 0

(* C21: in every stored tournament (update_schedule has run on it) the     *)
(* criticality of a match is 1 + the larger of the criticalities of its    *)
(* next_win and next_loss, a missing successor counting 0; so a match has  *)
(* a strictly greater criticality than each of its successors.             *)
C21_CriticalityIsDepth ==
    \A id \in DOMAIN db :
        LET ms == db[id].matches IN
        \A k \in DOMAIN ms :
            /\ ms[k].criticality = 1 + Max2(CriticalityOf(ms, ms[k].next_win),
                                            CriticalityOf(ms, ms[k].next_loss))
            /\ \A x \in Successors(ms, {k}) : ms[k].criticality > ms[x].criticality

(* a double bracket with a result reported in which a match is deeper      *)
(* along its next_loss than along its next_win                             *)
C21_LossPathDeeper ==
    \E id \in DOMAIN db :
        LET ms == db[id].matches IN
        \E k, j \in DOMAIN ms :
            /\ ms[j].sets # <<>>
            /\ ms[k].next_win # NoId /\ ms[k].next_loss # NoId
            /\ ms[ms[k].next_loss].criticality > ms[ms[k].next_win].criticality
            /\ ms[k].criticality = 1 + ms[ms[k].next_loss].criticality

(* the stored tournament is the one creation stores for its settings *)
Fresh(t) == t.matches = AsCreated(t, today)

(* a stored tournament of teams A, B, C in double format, as created *)
ThreeTeamDouble(t) == t.teams = <<"A", "B", "C">> /\ t.type = "double" /\ Fresh(t)

(* C22 as stated: creation with teams A, B, C in double format gives a     *)
(* bracket of size 4 whose round-1 matches are A vs C and B vs BYE; the    *)
(* second is a ghost with B advanced, and the winners final has p1_label   *)
(* "Winner of #1" and p2 = B.                                              *)
C22_ByeFacesSeedTwo ==
    \A id \in DOMAIN db :
        LET ms == db[id].matches IN
        ThreeTeamDouble(db[id])
            => /\ Cardinality({k \in DOMAIN ms : ms[k].bracket = "winners" /\ ms[k].round = 1}) = 2
               /\ ms[1].p1 = "A" /\ ms[1].p2 = "C"
               /\ ms[2].p1 = "B" /\ ms[2].p2 = "BYE"
               /\ IsGhost(ms[2]) /\ ms[2].winner = "B"
               /\ ms[3].p1_label = <<"Winner", 1>> /\ ms[3].p2 = "B"

(* C22 amended: creation with teams A, B, C in double format gives a       *)
(* bracket of size 4 whose single BYE faces seed 1: the round-1 matches    *)
(* are A vs BYE and B vs C; the first is a ghost with A advanced and no    *)
(* number, the second is numbered 1, and the winners final has p1 = A      *)
(* and p2_label "Winner of #1".                                            *)
C22_ByeFacesSeedOne ==
    \A id \in DOMAIN db :
        LET ms == db[id].matches IN
        ThreeTeamDouble(db[id])
            => /\ Cardinality({k \in DOMAIN ms : ms[k].bracket = "winners" /\ ms[k].round = 1}) = 2
               /\ ms[1].p1 = "A" /\ ms[1].p2 = "BYE"
               /\ ms[2].p1 = "B" /\ ms[2].p2 = "C"
               /\ IsGhost(ms[1]) /\ ms[1].winner = "A" /\ ms[1].number = NoId
               /\ ~IsGhost(ms[2]) /\ ms[2].number = 1
               /\ ms[3].bracket = "winners" /\ ms[3].round = 2
               /\ ms[3].p1 = "A" /\ ms[3].p2 = None
               /\ ms[3].p2_label = <<"Winner", 1>>

(* a tournament of teams A, B, C in double format has just been created *)
C22_ThreeTeamDoubleCreated ==
    \E id \in DOMAIN db : ThreeTeamDouble(db[id]) /\ resp = "ok" /\ Len(db[id].matches) = 6

(* the rounds of a bracket of a match list *)
Rounds(ms, bracket) == {ms[k].round : k \in {j \in DOMAIN ms : ms[j].bracket = bracket}}

(* a stored tournament of teams A, B, C, D in double format, as created *)
FourTeamDouble(t) == t.teams = <<"A", "B", "C", "D">> /\ t.type = "double" /\ Fresh(t)

(* winners rounds 1 and 2, losers rounds 1 and 2, one final, no ghost *)
FourTeamShape(ms) ==
    /\ Rounds(ms, "winners") = {1, 2}
    /\ Rounds(ms, "losers") = {1, 2}
    /\ Cardinality({k \in DOMAIN ms : ms[k].bracket = "finals"}) = 1
    /\ \A k \in DOMAIN ms : ~IsGhost(ms[k])

(* C23 as stated: creation with 4 teams in double format gives 2 winners   *)
(* rounds, 2 losers rounds and a grand final, 7 matches in all, none of    *)
(* them a ghost.                                                           *)
C23_SevenMatches ==
    \A id \in DOMAIN db :
        FourTeamDouble(db[id])
            => FourTeamShape(db[id].matches) /\ Len(db[id].matches) = 7

(* C23 amended: creation with 4 teams in double format gives 2 winners     *)
(* rounds (2 matches and 1), 2 losers rounds (1 match each) and a grand    *)
(* final, 6 matches in all, none of them a ghost and numbered 1 to 6.      *)
C23_SixMatches ==
    \A id \in DOMAIN db :
        LET ms == db[id].matches IN
        FourTeamDouble(db[id])
            => /\ FourTeamShape(ms) /\ Len(ms) = 6
               /\ [k \in DOMAIN ms |-> <<ms[k].bracket, ms[k].round>>]
                     = <<(<<"winners", 1>>), (<<"winners", 1>>), (<<"winners", 2>>),
                         (<<"losers", 1>>), (<<"losers", 2>>), (<<"finals", 1>>)>>
               /\ Numbers(ms) = <<1, 2, 3, 4, 5, 6>>

(* a tournament of teams A, B, C, D in double format has just been created *)
C23_FourTeamDoubleCreated ==
    \E id \in DOMAIN db :
        /\ FourTeamDouble(db[id]) /\ resp = "ok"
        /\ \E m \in MatchesOf(id) : m.bracket = "losers" /\ m.status = "Scheduled"

(* the round-1 matches of a bracket of a match list *)
RoundOne(ms, bracket) == {ms[k] : k \in {j \in DOMAIN ms : ms[j].bracket = bracket /\ ms[j].round = 1}}

(* what create_tournament stores for teams A, B, C, D in double format     *)
(* with the courts, start time and match duration of tournament t          *)
FourTeamDoubleOn(t) ==
    AsCreated([t EXCEPT !.teams = <<"A", "B", "C", "D">>, !.type = "double"], today)

(* C24: in a newly created 4-team double tournament, whatever the number   *)
(* of courts, both winners round-1 matches are assigned and start no later *)
(* than any losers round-1 match, and every losers round-1 match starts    *)
(* only after both winners round-1 matches have finished.  The courts,     *)
(* start time and duration are those of every stored tournament, so one    *)
(* court, whose schedule ends beyond Horizon, is covered too.              *)
C24_WinnersRoundOneFirst ==
    \A id \in DOMAIN db :
        LET ms == FourTeamDoubleOn(db[id]) IN
        \A w \in RoundOne(ms, "winners") :
            /\ Assigned(w)
            /\ \A l \in RoundOne(ms, "losers") :
                   Assigned(l) => /\ StartOf(w) <= StartOf(l)
                                  /\ StartOf(l) >= StartOf(w) + db[id].match_duration

(* a newly created 4-team double tournament on three courts or more: the   *)
(* losers round-1 match waits for the winners round-1 matches while a      *)
(* court is free at the start                                              *)
C24_LosersWaitWithFreeCourt ==
    \E id \in DOMAIN db :
        LET t == db[id] IN
        /\ FourTeamDouble(t) /\ Len(t.courts) >= 3 /\ t.match_duration > 0
        /\ t.matches = FourTeamDoubleOn(t)
        /\ \E l \in RoundOne(t.matches, "losers") :
               /\ Assigned(l)
               /\ \A w \in RoundOne(t.matches, "winners") :
                      Assigned(w) /\ StartOf(l) = StartOf(w) + t.match_duration

-----------------------------------------------------------------------------
(* SpecOpening: an admin creates a 2-team tournament that starts at 09:00  *)
(* or 09:30, changes its settings, and reports and clears scores on its    *)
(* one match.                                                              *)

OpeningStartTimes == {<<9, 0>>, <<9, 30>>}

OpeningData ==
    Settings({"A\nB"}, {"single", "double"}, {"C1", "C1,C2"}, {1, 30}, OpeningStartTimes, {"k"})

StraightSets == <<[p1 |-> 25, p2 |-> 10], [p1 |-> 25, p2 |-> 20]>>

OpeningSheets ==
    {StraightSets, P1Wins, P2Wins,
     <<[p1 |-> 10, p2 |-> 25], [p1 |-> 20, p2 |-> 25]>>,
     <<[p1 |-> 25, p2 |-> 10], [p1 |-> 20, p2 |-> 25]>>}

OpeningReports == Reports({1}, OpeningSheets, {<<>>})

NextOpening ==
    \E id \in TournamentIds :
        \/ \E data \in OpeningData : CreateTournament(id, TRUE, data)
        \/ \E data \in OpeningData : UpdateSettings(id, TRUE, data)
        \/ \E report \in OpeningReports : ReportScore(id, TRUE, report)
        \/ DeleteTournament(id, TRUE)

SpecOpening == Init /\ [][NextOpening]_vars

(* a stored single tournament of teams A, B on the one court C1 from 09:00 *)
TwoTeamSingle(t) ==
    /\ t.teams = <<"A", "B">> /\ t.type = "single"
    /\ t.courts = <<"C1">> /\ t.start_time = <<9, 0>>

(* the one match, not a ghost, numbered 1, on C1 at 09:00 *)
OnCourtAtNine(ms) ==
    /\ Len(ms) = 1 /\ ~IsGhost(ms[1]) /\ ms[1].number = 1
    /\ ms[1].court = "C1" /\ ms[1].time = <<9, 0>>

(* C25: a 2-team single tournament of teams A, B on court C1 from 09:00    *)
(* has, as created, exactly one match, not a ghost, numbered 1, Scheduled  *)
(* on C1 at 09:00; the report of sets (25,10), (25,20) on it is accepted   *)
(* and leaves winner A and status Finished, on the same court and time.    *)
C25_OpeningScenario ==
    \A id \in DOMAIN db :
        LET t == db[id]
            report == ScoreOf(1, StraightSets)
        IN  (TwoTeamSingle(t) /\ Fresh(t))
                => /\ OnCourtAtNine(t.matches) /\ t.matches[1].status = "Scheduled"
                   /\ t.matches[1].p1 = "A" /\ t.matches[1].p2 = "B"
                   /\ Answered(t, report)
                   /\ LET after == AfterReport(t, report, today).matches
                      IN  /\ OnCourtAtNine(after)
                          /\ after[1].winner = "A" /\ after[1].status = "Finished"
                          /\ after[1].timestamp = t.matches[1].timestamp

(* the scenario tournament is stored with the sets (25,10), (25,20) on its *)
(* match: winner A, Finished, on C1 at 09:00                               *)
C25_StraightSetsReported ==
    \E id \in DOMAIN db :
        LET t == db[id] IN
        /\ TwoTeamSingle(t) /\ t.match_duration = 30 /\ resp = "ok"
        /\ OnCourtAtNine(t.matches)
        /\ t.matches[1].sets = StraightSets /\ t.matches[1].p1_sets = 2
        /\ t.matches[1].winner = "A" /\ t.matches[1].status = "Finished"
        /\ t.matches = AfterReport([t EXCEPT !.matches = AsCreated(t, today)],
                                   ScoreOf(1, StraightSets), today).matches

(* Resolver and Scheduler have completed on tournament t: running them    *)
(* again raises nothing and changes nothing                                *)
Settled(t) ==
    /\ ~ScheduleRaises(refresh_bracket(t.matches), t.courts)
    /\ Rerun(t, today) = t.matches

(* C26: a request that ends in an error outcome leaves the table of stored *)
(* tournaments exactly as it was, and after a request that ends in success *)
(* every stored tournament is one on which Resolver and Scheduler have     *)
(* completed.                                                              *)
C26_AllOrNothing ==
    [][/\ resp' # "ok" => db' = db
       /\ resp' = "ok" => \A id \in DOMAIN db' : Settled(db'[id])]_vars

(* a tied sheet has just been refused on a tournament that holds a result *)
C26_TieRefusedOnPlayedTournament ==
    /\ resp = "400 Tie"
    /\ \E id \in DOMAIN db : \E m \in MatchesOf(id) :
           m.sets # <<>> /\ m.status = "Finished" /\ Settled(db[id])

-----------------------------------------------------------------------------
(* The handlers step by step.  Every handler of routes.py is a coroutine   *)
(* (async def) served by one event loop, so a request runs without         *)
(* interruption from one await to the next.  Its suspension points are:    *)
(* the dependencies FastAPI resolves before the body (get_db runs in the   *)
(* thread pool, get_current_user is awaited; in report_score the await of  *)
(* line 170), and each await manager.broadcast after the commit.  Between  *)
(* the SELECT and the commit there is no await.                            *)

(* lines 85-102 on a table *)
CreateOutcome(table, id, data, day) ==
    LET teams_list == StrippedItems(data.teams, "\n")
        t == [id |-> id, name |-> data.name, code |-> data.code,
              type |-> data.type, start_time |-> data.start_time,
              match_duration |-> data.duration, teams |-> teams_list,
              courts |-> StrippedItems(data.courts, ","), date |-> data.date,
              matches |-> refresh_bracket(generate_structure(teams_list, data.type))]
    IN  IF ScheduleRaises(t.matches, t.courts)
        THEN [db |-> table, resp |-> "500"]
        ELSE [db |-> Put(table, id, Recomputed(t, day)), resp |-> "ok"]

(* lines 127-145 on a table *)
SettingsOutcome(table, id, data, day) ==
    IF id \notin DOMAIN table THEN [db |-> table, resp |-> "404 Not found"]
    ELSE LET t == table[id]
             new_teams == StrippedItems(data.teams, "\n")
             t1 == IF NeedsRegeneration(t, data)
                   THEN [t EXCEPT !.type = data.type, !.teams = new_teams,
                                  !.matches = refresh_bracket(
                                      generate_structure(new_teams, data.type))]
                   ELSE t
             t2 == [t1 EXCEPT !.name = data.name, !.code = data.code,
                              !.date = data.date, !.start_time = data.start_time,
                              !.match_duration = data.duration,
                              !.courts = StrippedItems(data.courts, ",")]
         IN  IF ScheduleRaises(t2.matches, t2.courts)
             THEN [db |-> table, resp |-> "500"]
             ELSE [db |-> Put(table, id, Recomputed(t2, day)), resp |-> "ok"]

(* lines 175-220 on a table *)
ReportOutcome(table, id, is_admin, report, day) ==
    IF id \notin DOMAIN table THEN [db |-> table, resp |-> "404 Not found"]
    ELSE LET t == table[id] IN
         IF CodeRejected(t, report, is_admin)
         THEN [db |-> table, resp |-> "403 Invalid Code"]
         ELSE IF report.id \notin DOMAIN t.matches
         THEN [db |-> table, resp |-> "404 Match not found"]
         ELSE IF ReportRaisesTie(report) THEN [db |-> table, resp |-> "400 Tie"]
         ELSE LET t1 == Scored(t, report)
              IN  IF ScheduleRaises(t1.matches, t1.courts)
                  THEN [db |-> table, resp |-> "500"]
                  ELSE [db |-> Put(table, id, Recomputed(t1, day)), resp |-> "ok"]

(* lines 155-156 on a table *)
DeleteOutcome(table, id) == [db |-> Remove(table, id), resp |-> "ok"]

(* the body of the handler of request q, from its first statement to its   *)
(* commit or its raise                                                     *)
Body(table, q, day) ==
    CASE q.kind = "create" -> CreateOutcome(table, q.id, q.body, day)
      [] q.kind = "settings" -> SettingsOutcome(table, q.id, q.body, day)
      [] q.kind = "report" -> ReportOutcome(table, q.id, q.is_admin, q.body, day)
      [] q.kind = "delete" -> DeleteOutcome(table, q.id)

(* create, update_settings and delete depend on get_current_user *)
AdminOnly(q) == q.kind \in {"create", "settings", "delete"}

(* the messages the handler of q broadcasts: lines 103, 146-147, 157, 221 *)
Notes(q) ==
    CASE q.kind = "create" -> << <<"dashboard_update">> >>
      [] q.kind = "settings" -> << <<"dashboard_update">>, <<"tournament_update", q.id>> >>
      [] q.kind = "delete" -> << <<"dashboard_update">> >>
      [] q.kind = "report" -> << <<"tournament_update", q.id>> >>

(* websocket_manager.manager.broadcast: the change sink takes the message *)
broadcast(sent, message) == Append(sent, message)

(* two requests reach the server together; seen is the table at that time *)
Arrive(qs) ==
    /\ \A r \in Callers : flight[r].pc \in {"idle", "returned"}
    /\ \A r \in Callers : qs[r].kind = "create" => qs[r].id \notin DOMAIN db
    /\ \A r, o \in Callers :
           (r # o /\ qs[r].kind = "create" /\ qs[o].kind = "create") => qs[r].id # qs[o].id
    /\ flight' = [r \in Callers |->
                     [kind |-> qs[r].kind, id |-> qs[r].id, is_admin |-> qs[r].is_admin,
                      body |-> qs[r].body, pc |-> "arrived", outcome |-> "none",
                      sent |-> <<>>, seen |-> db]]
    /\ UNCHANGED <<db, resp, today>>

(* a handler that broadcasts its first message before it reads the table *)
ResolveAnnouncing(r) ==
    /\ flight[r].pc = "arrived"
    /\ flight' = [flight EXCEPT ![r] =
                     IF AdminOnly(@) /\ ~@.is_admin
                     THEN [@ EXCEPT !.pc = "done", !.outcome = "401"]
                     ELSE [@ EXCEPT !.pc = "body", !.sent = broadcast(@, Notes(flight[r])[1])]]
    /\ UNCHANGED <<db, resp, today>>

(* the dependencies: lines 83, 124-125, 153, 163 and 165-173 *)
Resolve(r) ==
    /\ flight[r].pc = "arrived"
    /\ flight' = [flight EXCEPT ![r] =
                     IF AdminOnly(@) /\ ~@.is_admin
                     THEN [@ EXCEPT !.pc = "done", !.outcome = "401"]
                     ELSE [@ EXCEPT !.pc = "body"]]
    /\ UNCHANGED <<db, resp, today>>

(* a handler that works on the table it saw when the request arrived and   *)
(* writes its own row from it                                              *)
CommitFromArrival(r) ==
    /\ flight[r].pc = "body"
    /\ LET q == flight[r]
           o == Body(q.seen, q, today)
       IN  /\ \A id \in DOMAIN o.db : WithinHorizon(o.db[id])
           /\ db' = IF o.resp # "ok" THEN db
                    ELSE IF q.id \in DOMAIN o.db THEN Put(db, q.id, o.db[q.id])
                    ELSE Remove(db, q.id)
           /\ flight' = [flight EXCEPT ![r] =
                            IF o.resp = "ok" THEN [@ EXCEPT !.pc = "committed"]
                            ELSE [@ EXCEPT !.pc = "done", !.outcome = o.resp]]
    /\ UNCHANGED <<resp, today>>

(* the body up to db.commit(): lines 85-102, 127-145, 155-156, 175-220 *)
Commit(r) ==
    /\ flight[r].pc = "body"
    /\ LET o == Body(db, flight[r], today)
       IN  /\ \A id \in DOMAIN o.db : WithinHorizon(o.db[id])
           /\ db' = o.db
           /\ flight' = [flight EXCEPT ![r] =
                            IF o.resp = "ok" THEN [@ EXCEPT !.pc = "committed"]
                            ELSE [@ EXCEPT !.pc = "done", !.outcome = o.resp]]
    /\ UNCHANGED <<resp, today>>

(* one await manager.broadcast: lines 103, 146, 147, 157, 221 *)
Notify(r) ==
    /\ flight[r].pc = "committed"
    /\ Len(flight[r].sent) < Len(Notes(flight[r]))
    /\ flight' = [flight EXCEPT ![r].sent =
                     broadcast(@, Notes(flight[r])[Len(@) + 1])]
    /\ UNCHANGED <<db, resp, today>>

(* the response: lines 104, 148, 158, 222, or the raised HTTPException *)
Return(r) ==
    /\ \/ flight[r].pc = "done"
       \/ flight[r].pc = "committed" /\ flight[r].sent = Notes(flight[r])
    /\ LET outcome == IF flight[r].pc = "committed" THEN "ok" ELSE flight[r].outcome
       IN  /\ resp' = outcome
           /\ flight' = [flight EXCEPT ![r].pc = "returned", ![r].outcome = outcome]
    /\ UNCHANGED <<db, today>>

-----------------------------------------------------------------------------
(* SpecLoop: two requests at a time on two tournaments of teams A and B:   *)
(* creates, settings updates that set the match duration to 2, reports and *)
(* clears of match 1 by an admin, reports by a caller without the code,    *)
(* deletes by an admin and by a caller who is none.                        *)

LoopIds == {"t1", "t2"}
LoopCreate == Settings({"A\nB"}, {"single"}, {"c1"}, {1}, StartTimes, {"k"})
LoopSettings == Settings({"A\nB"}, {"single"}, {"c1"}, {2}, StartTimes, {"k"})
LoopReports == Reports({1}, {P1Wins}, {<<>>})

Request(kind, id, is_admin, body) ==
    [kind |-> kind, id |-> id, is_admin |-> is_admin, body |-> body]

LoopRequests ==
    {Request("create", id, TRUE, data) : id \in LoopIds, data \in LoopCreate}
        \cup {Request("settings", id, TRUE, data) : id \in LoopIds, data \in LoopSettings}
        \cup {Request("report", id, TRUE, report) : id \in LoopIds, report \in LoopReports}
        \cup {Request("report", id, FALSE, report) :
                  id \in LoopIds, report \in {q \in LoopReports : ~q.clear}}
        \cup {Request("delete", "t2", TRUE, NoBody), Request("delete", "t1", FALSE, NoBody)}

NextLoop ==
    \/ \E qs \in [Callers -> LoopRequests] : Arrive(qs)
    \/ \E r \in Callers :
           \/ Resolve(r)
           \/ Commit(r)
           \/ Notify(r)
           \/ Return(r)

SpecLoop == Init /\ [][NextLoop]_vars

(* the table after request q has been handled alone on a table *)
Handled(table, q) ==
    IF AdminOnly(q) /\ ~q.is_admin THEN table ELSE Body(table, q, today).db

Decided(q) == q.pc \in {"committed", "done", "returned"}

Row(table, id) == IF id \in DOMAIN table THEN <<table[id]>> ELSE <<>>

(* C27: concurrent mutations are serializable.  Once the two requests that *)
(* arrived together have both passed their commit or their raise, the      *)
(* table is the one that handling them one after the other, in one of the  *)
(* two orders, gives from the table they arrived at; and while they are    *)
(* handled, a tournament neither of them names keeps its stored row.       *)
C27_SerialOrderExists ==
    LET a == flight["r1"]
        b == flight["r2"]
    IN  /\ (Decided(a) /\ Decided(b))
               => \/ db = Handled(Handled(a.seen, a), b)
                  \/ db = Handled(Handled(a.seen, b), a)
        /\ a.pc # "idle"
               => \A id \in LoopIds :
                      (a.id # id /\ b.id # id) => Row(db, id) = Row(a.seen, id)

(* a report and a settings update of one tournament, handled together and  *)
(* both stored: the table shows both, which neither request alone gives    *)
C27_ReportAndSettingsBothStored ==
    LET a == flight["r1"]
        b == flight["r2"]
    IN  /\ a.kind = "report" /\ b.kind = "settings" /\ a.id = b.id
        /\ a.pc = "committed" /\ b.pc = "committed"
        /\ db # Handled(a.seen, a) /\ db # Handled(a.seen, b)
        /\ db[a.id].match_duration = 2
        /\ db[a.id].matches[1].winner = "A"

(* C28: change notifications follow persistence.  A request broadcasts a   *)
(* message only from the point after its commit; a request that ends in an *)
(* error has broadcast nothing; and a request that answers ok has          *)
(* broadcast all the messages of its handler (dashboard_update and/or      *)
(* tournament_update(id)).                                                 *)
C28_NotifyAfterCommit ==
    [][\A r \in Callers :
           /\ (flight'[r].sent # flight[r].sent /\ flight'[r].sent # <<>>)
                  => flight[r].pc = "committed"
           /\ (flight'[r].pc \in {"done", "returned"} /\ flight'[r].outcome # "ok")
                  => flight'[r].sent = <<>>
           /\ (flight'[r].pc = "returned" /\ flight'[r].outcome = "ok")
                  => flight'[r].sent = Notes(flight'[r])]_vars

(* a settings update answered ok after both its messages, next to a report *)
(* refused for its code that sent none                                     *)
C28_OkNotifiedRefusedSilent ==
    \E r, o \in Callers :
        /\ flight[r].kind = "settings" /\ flight[r].pc = "returned"
        /\ flight[r].outcome = "ok"
        /\ flight[r].sent = << <<"dashboard_update">>, <<"tournament_update", flight[r].id>> >>
        /\ flight[r].id \in DOMAIN db /\ db[flight[r].id].match_duration = 2
        /\ flight[o].kind = "report" /\ flight[o].pc = "returned"
        /\ flight[o].outcome = "403 Invalid Code" /\ flight[o].sent = <<>>

LosersCount(ms, r) ==
    Cardinality({k \in DOMAIN ms : ms[k].bracket = "losers" /\ ms[k].round = r})

BracketSize(t) == 2 ^ CeilLog2(Len(t.teams))

(* double format with a losers bracket: line 58 *)
HasLosers(t) == t.type = "double" /\ BracketSize(t) >= 4

(* C29 as stated: lb[1] holds size/4 matches, every odd losers round keeps *)
(* the count of the preceding even round, and every even losers round has  *)
(* half the count of the round before it.                                  *)
C29_OddKeepsEvenHalves ==
    \A id \in DOMAIN db :
        LET ms == db[id].matches IN
        HasLosers(db[id])
            => /\ 4 * LosersCount(ms, 1) = BracketSize(db[id])
               /\ \A r \in Rounds(ms, "losers") \ {1} :
                      IF r % 2 = 1 THEN LosersCount(ms, r) = LosersCount(ms, r - 1)
                      ELSE 2 * LosersCount(ms, r) = LosersCount(ms, r - 1)

(* C29 amended: the losers bracket has 2 * (log2(size) - 1) rounds; lb[1]  *)
(* holds size/4 matches, every even losers round keeps the count of the    *)
(* odd round before it, and every odd losers round after the first has     *)
(* half the count of the round before it.                                  *)
C29_EvenKeepsOddHalves ==
    \A id \in DOMAIN db :
        LET ms == db[id].matches IN
        HasLosers(db[id])
            => /\ Rounds(ms, "losers") = 1..(2 * (CeilLog2(Len(db[id].teams)) - 1))
               /\ 4 * LosersCount(ms, 1) = BracketSize(db[id])
               /\ \A r \in Rounds(ms, "losers") \ {1} :
                      IF r % 2 = 0 THEN LosersCount(ms, r) = LosersCount(ms, r - 1)
                      ELSE 2 * LosersCount(ms, r) = LosersCount(ms, r - 1)

(* a stored double bracket of size 8: losers rounds of 2, 2, 1 and 1 *)
C29_SizeEightLosersBracket ==
    \E id \in DOMAIN db :
        LET ms == db[id].matches IN
        /\ HasLosers(db[id]) /\ BracketSize(db[id]) = 8
        /\ [r \in 1..4 |-> LosersCount(ms, r)] = <<2, 2, 1, 1>>

(* the seed of a team: its place in the team list *)
SeedOf(t, name) == CHOOSE s \in 1..Len(t.teams) : t.teams[s] = name

(* the slots of winners round 1: <<match, 1>> is its p1, <<match, 2>> its p2 *)
RoundOneSlots(ms) ==
    {k \in DOMAIN ms : ms[k].bracket = "winners" /\ ms[k].round = 1} \X {1, 2}

SlotOf(ms, slot) == IF slot[2] = 1 THEN ms[slot[1]].p1 ELSE ms[slot[1]].p2

(* C30: seeding, for every stored tournament of n >= 2 teams.  The bracket *)
(* size (the number of winners round-1 slots) is the smallest power of two *)
(* >= n; each team name is in exactly one round-1 slot; exactly size - n   *)
(* round-1 slots are "BYE"; a round-1 match pairs seed s with seed         *)
(* size + 1 - s, so each of the top size - n seeds faces a BYE, the other  *)
(* matches pair two teams whose seeds add up to size + 1, and no round-1   *)
(* match has BYE in both slots.                                            *)
C30_SeedsFaceEachOther ==
    \A id \in DOMAIN db :
        LET t == db[id]
            ms == t.matches
            n == Len(t.teams)
            slots == RoundOneSlots(ms)
            size == Cardinality(slots)
        IN  n >= 2
            => /\ \E p \in 0..n : size = 2 ^ p
               /\ size >= n /\ size < 2 * n
               /\ \A s \in 1..n :
                      Cardinality({x \in slots : SlotOf(ms, x) = t.teams[s]}) = 1
               /\ Cardinality({x \in slots : SlotOf(ms, x) = "BYE"}) = size - n
               /\ \A x \in slots :
                      LET a == ms[x[1]].p1
                          b == ms[x[1]].p2
                      IN  /\ ~(a = "BYE" /\ b = "BYE")
                          /\ a # "BYE" /\ b = "BYE" => SeedOf(t, a) <= size - n
                          /\ a = "BYE" /\ b # "BYE" => SeedOf(t, b) <= size - n
                          /\ a # "BYE" /\ b # "BYE"
                                 => SeedOf(t, a) + SeedOf(t, b) = size + 1
               /\ \A s \in 1..(size - n) :
                      \E x \in slots :
                          /\ SlotOf(ms, x) = t.teams[s]
                          /\ "BYE" \in {ms[x[1]].p1, ms[x[1]].p2}

(* five teams in a bracket of 8: A, B and C face a BYE and D plays E *)
C30_FiveTeamsSeeded ==
    \E id \in DOMAIN db :
        LET ms == db[id].matches IN
        /\ db[id].teams = <<"A", "B", "C", "D", "E">>
        /\ Cardinality(RoundOneSlots(ms)) = 8
        /\ [k \in 1..4 |-> <<ms[k].p1, ms[k].p2>>]
               = << <<"A", "BYE">>, <<"D", "E">>, <<"B", "BYE">>, <<"C", "BYE">> >>

-----------------------------------------------------------------------------
(* what a slot fed by match s shows: the winner of s, or for a loser slot  *)
(* "BYE" after a BYE winner, the slot of s that did not win after a team   *)
(* won, nothing otherwise                                                  *)
Derived(s, type) ==
    IF type = "winner" THEN s.winner
    ELSE IF s.winner = "BYE" THEN "BYE"
    ELSE IF s.winner = None THEN None
    ELSE IF s.winner = s.p1 THEN s.p2 ELSE s.p1

(* C31: slot consistency.  In every stored tournament, for every match m   *)
(* and each slot with a source, the slot equals the value derived from the *)
(* source match: its winner for a winner slot; for a loser slot "BYE" if   *)
(* the source's winner is "BYE", the source's other slot if its winner is  *)
(* a team, and unresolved otherwise.                                       *)
C31_SlotsFollowSources ==
    \A id \in DOMAIN db : \A m \in MatchesOf(id) :
        LET ms == db[id].matches IN
        /\ m.source_p1 # NoId => m.p1 = Derived(ms[m.source_p1], m.source_p1_type)
        /\ m.source_p2 # NoId => m.p2 = Derived(ms[m.source_p2], m.source_p2_type)

(* a loser slot that holds the team beaten by the second slot of its source *)
C31_LoserOfSecondSlotWin ==
    \E id \in DOMAIN db : \E m \in MatchesOf(id) :
        LET ms == db[id].matches IN
        /\ m.source_p2 # NoId /\ m.source_p2_type = "loser"
        /\ ms[m.source_p2].sets # <<>>
        /\ ms[m.source_p2].winner = ms[m.source_p2].p2
        /\ m.p2 = ms[m.source_p2].p1 /\ m.p2 \notin {None, "BYE"}

-----------------------------------------------------------------------------
(* the match lists refresh_bracket is called on: the new bracket of a      *)
(* create, and a stored bracket with a report or a clear applied to any    *)
(* one of its matches                                                      *)
ResolverInputs(t) ==
    {generate_structure(t.teams, t.type)}
        \cup {[t.matches EXCEPT ![report.id] = ApplyReport(@, report)] :
                  report \in Reports(DOMAIN t.matches, {P1Wins, P2Wins}, {<<>>})}

(* C32: resolver convergence.  On every match list refresh_bracket is      *)
(* called on, the state after its 20 sweeps is unchanged by one more       *)
(* sweep, and the state after the first sweep already equals the state     *)
(* after all 20.                                                           *)
C32_FirstSweepSettles ==
    \A id \in DOMAIN db : \A ms \in ResolverInputs(db[id]) :
        /\ Sweep(Sweeps(ms, ResolverSweeps)) = Sweeps(ms, ResolverSweeps)
        /\ Sweep(ms) = Sweeps(ms, ResolverSweeps)

(* a report that turns a played match over: the sweep drops the result of  *)
(* the match its winner had gone on to win                                 *)
C32_SweepDropsLaterResult ==
    \E id \in DOMAIN db : \E ms \in ResolverInputs(db[id]) :
        \E k \in DOMAIN ms :
            /\ ms # generate_structure(db[id].teams, db[id].type)
            /\ ms[k] = db[id].matches[k]
            /\ ms[k].source_p1 # NoId /\ ms[k].sets # <<>>
            /\ Sweep(ms)[k].sets = <<>>
            /\ Sweep(ms) = Sweeps(ms, ResolverSweeps)

(* C33: bye collapse always advances a real opponent.  Whenever            *)
(* refresh_bracket leaves a match without a score Finished with "BYE" in a *)
(* slot, its winner is "BYE" if both slots are "BYE" and otherwise the     *)
(* team in the other slot; a match with one BYE slot whose other slot is   *)
(* unresolved is not Finished with an unset winner.                        *)
C33_ByeAdvancesOpponent ==
    \A id \in DOMAIN db : \A ms \in ResolverInputs(db[id]) :
        \A k \in DOMAIN ms :
            LET m == Sweeps(ms, ResolverSweeps)[k] IN
            (m.status = "Finished" /\ m.sets = <<>> /\ (m.p1 = "BYE" \/ m.p2 = "BYE"))
                => IF m.p1 = "BYE" /\ m.p2 = "BYE" THEN m.winner = "BYE"
                   ELSE /\ m.winner = (IF m.p1 = "BYE" THEN m.p2 ELSE m.p1)
                        /\ m.winner # None

(* the match shown as #n *)
ByNumber(ms, n) == ms[CHOOSE k \in DOMAIN ms : ms[k].number = n]

(* what a label promises once the match it names has a team as winner *)
Promised(ms, label) ==
    LET s == ByNumber(ms, label[2]) IN
    IF label[1] = "Winner" THEN s.winner
    ELSE IF s.winner = s.p1 THEN s.p2 ELSE s.p1

LabelAgrees(ms, label, slot) ==
    (label[1] \in {"Winner", "Loser"}
        /\ ByNumber(ms, label[2]).status = "Finished"
        /\ ByNumber(ms, label[2]).winner \notin {None, "BYE"})
        => slot = Promised(ms, label)

(* C34: labels agree with propagation.  For every slot of a stored match   *)
(* whose label is "Winner of #N" (resp. "Loser of #N"), once match #N is   *)
(* Finished with a team as winner the slot holds exactly the winner (resp. *)
(* loser) of match #N, also when the label was derived by skipping through *)
(* ghost matches.                                                          *)
C34_LabelsAgreeWithSlots ==
    \A id \in DOMAIN db : \A m \in MatchesOf(id) :
        /\ LabelAgrees(db[id].matches, m.p1_label, m.p1)
        /\ LabelAgrees(db[id].matches, m.p2_label, m.p2)

(* the finish time the scheduler records for a stored match that has one:  *)
(* lines 222, 225-233 and 266-267                                          *)
RecordedFinish(t, s) ==
    IF IsGhost(s) THEN StartInstant(today, t.start_time)
    ELSE IF s.timestamp # NoStamp THEN FromIsoFormat(s.timestamp) + t.match_duration
    ELSE StartInstant(today, t.start_time) + t.match_duration

(* C35: ready-set rule.  A match enters the ready set only if each of its  *)
(* sources is absent or already has a recorded finish time (a ghost, a     *)
(* Finished match, or a match assigned earlier in the run) and the latest  *)
(* of these is <= the court's free instant; a match with a source not yet  *)
(* scheduled is never ready.  Hence in every stored tournament a Scheduled *)
(* match has no Pending source and starts no earlier than the recorded     *)
(* finish of each of its sources.                                          *)
C35_ReadyOnlyAfterSources ==
    \A id \in DOMAIN db : \A m \in MatchesOf(id) :
        LET t == db[id]
            Waits(src_id) ==
                src_id # NoId
                    => LET s == t.matches[src_id] IN
                       \/ IsGhost(s)
                       \/ /\ s.status \in {"Finished", "Scheduled"}
                          /\ FromIsoFormat(m.timestamp) >= RecordedFinish(t, s)
        IN  m.status = "Scheduled" => Waits(m.source_p1) /\ Waits(m.source_p2)

-----------------------------------------------------------------------------
(* The selection rule written as two total orders. *)

Position(keys, c) == CHOOSE j \in 1..Len(keys) : keys[j] = c

(* earliest free instant, then position in the court list *)
CourtBefore(keys, court_timers, a, b) ==
    \/ court_timers[a] < court_timers[b]
    \/ court_timers[a] = court_timers[b] /\ Position(keys, a) < Position(keys, b)

(* highest criticality, then lower round, then ascending id *)
MatchBefore(ms, a, b) ==
    \/ ms[a].criticality > ms[b].criticality
    \/ ms[a].criticality = ms[b].criticality /\ ms[a].round < ms[b].round
    \/ ms[a].criticality = ms[b].criticality /\ ms[a].round = ms[b].round /\ a < b

(* the loop of update_schedule with the court and the match picked as the  *)
(* least element of these orders                                           *)
RECURSIVE OrderedLoop(_, _, _, _, _)
OrderedLoop(st, keys, start, duration, loop) ==
    IF st.unscheduled = <<>> \/ loop <= 0 THEN st.ms
    ELSE LET courts == {keys[j] : j \in 1..Len(keys)}
             best_court == CHOOSE c \in courts :
                               \A o \in courts \ {c} : CourtBefore(keys, st.court_timers, c, o)
             current == st.court_timers[best_court]
             ready == {mid \in {st.unscheduled[j] : j \in 1..Len(st.unscheduled)} :
                          ReadyAt(st.ms, st.finish_times, mid, start) <= current}
         IN  IF ready # {}
             THEN LET cand == CHOOSE m \in ready :
                                  \A o \in ready \ {m} : MatchBefore(st.ms, m, o)
                      fin == current + duration
                  IN  OrderedLoop(
                        [ms |-> [st.ms EXCEPT ![cand].court = best_court,
                                              ![cand].time = FormatTime(current),
                                              ![cand].timestamp = IsoFormat(current),
                                              ![cand].status = "Scheduled"],
                         finish_times |-> [st.finish_times EXCEPT ![cand] = fin],
                         court_timers |-> [st.court_timers EXCEPT ![best_court] = fin],
                         unscheduled |-> SelectSeq(st.unscheduled, LAMBDA mid : mid # cand)],
                        keys, start, duration, loop - 1)
             ELSE LET next_wake == NextWake(st.ms, st.finish_times, st.unscheduled,
                                            start, current)
                  IN  IF next_wake # NoTime
                      THEN OrderedLoop([st EXCEPT !.court_timers[best_court] = next_wake],
                                       keys, start, duration, loop - 1)
                      ELSE st.ms

OrderedSchedule(ms0, courts, start_time, duration, day) ==
    LET ms == WithCriticality(ms0)
        start == StartInstant(day, start_time)
        keys == DictKeys(courts)
        finish_times == [k \in 1..Len(ms) |-> SeedFinish(ms[k], start, duration)]
        seeded == [k \in 1..Len(ms) |-> SeedMatch(ms[k])]
        unscheduled == SelectSeq([k \in 1..Len(ms) |-> k],
                                 LAMBDA k : finish_times[k] = NoTime)
    IN  OrderedLoop([ms |-> seeded, finish_times |-> finish_times,
                     court_timers |-> HoistTimers(seeded, finish_times, keys, start),
                     unscheduled |-> unscheduled],
                    keys, start, duration, Len(ms) * 2)

(* the match lists update_schedule is called on from a stored tournament:  *)
(* its own list, and the list after a report or a clear of a numbered      *)
(* match and refresh_bracket                                               *)
SchedulerInputs(t) ==
    {t.matches}
        \cup {Scored(t, report).matches :
                  report \in Reports({k \in DOMAIN t.matches : t.matches[k].number # NoId},
                                     {P1Wins, P2Wins}, {<<>>})}

(* C36: scheduler selection is deterministic.  Each iteration picks the    *)
(* court with the earliest free instant, ties broken by position in the    *)
(* court list, and among the ready matches the one with the highest        *)
(* criticality, ties broken by lower round and then by ascending id: the   *)
(* schedule update_schedule gives is the one these orders give.            *)
C36_SelectionByOrders ==
    \A id \in DOMAIN db : \A ms \in SchedulerInputs(db[id]) :
        LET t == db[id] IN
        ~ScheduleRaises(ms, t.courts)
            => update_schedule(ms, t.courts, t.start_time, t.match_duration, today)
                   = OrderedSchedule(ms, t.courts, t.start_time, t.match_duration, today)

(* two first-round matches with equal criticality and round on courts     *)
(* that are all free at the start: the lower id takes the first court      *)
C36_TieOnCourtsAndMatches ==
    \E id \in DOMAIN db :
        LET ms == db[id].matches IN
        /\ Len(db[id].courts) >= 2 /\ Len(ms) >= 2
        /\ ms[1].status = "Scheduled" /\ ms[2].status = "Scheduled"
        /\ ms[1].criticality = ms[2].criticality /\ ms[1].round = ms[2].round
        /\ ms[1].timestamp = ms[2].timestamp
        /\ ms[1].court = db[id].courts[1] /\ ms[2].court = db[id].courts[2]

-----------------------------------------------------------------------------
(* the match lists update_schedule is called on after a report or a clear  *)
(* of any match of a stored tournament, and on its own list                *)
ReportedInputs(t) ==
    {t.matches}
        \cup {Scored(t, report).matches :
                  report \in Reports(DOMAIN t.matches, {P1Wins, P2Wins}, {<<>>})}

(* the fields update_schedule never writes *)
Kept(m) ==
    [m EXCEPT !.criticality = 0, !.status = "", !.court = None, !.time = NoStamp,
              !.timestamp = NoStamp]

Placement(m) == <<m.court, m.time, m.timestamp>>

(* C37: frame of update_schedule.  It never changes court, time or         *)
(* timestamp of a Finished non-ghost match, and never changes p1, p2,      *)
(* winner, sets, p1_sets, p2_sets, number or labels of any match; it       *)
(* writes only criticality on all matches, status on ghosts (forced to     *)
(* Finished), and court, time, timestamp and status on non-Finished        *)
(* non-ghost matches.                                                      *)
C37_SchedulerFrame ==
    \A id \in DOMAIN db : \A ms \in ReportedInputs(db[id]) :
        LET t == db[id]
            out == update_schedule(ms, t.courts, t.start_time, t.match_duration, today)
        IN  ~ScheduleRaises(ms, t.courts)
            => /\ Len(out) = Len(ms)
               /\ \A k \in DOMAIN ms :
                      /\ Kept(out[k]) = Kept(ms[k])
                      /\ IsGhost(ms[k])
                            => Placement(out[k]) = Placement(ms[k])
                               /\ out[k].status = "Finished"
                      /\ (~IsGhost(ms[k]) /\ ms[k].status = "Finished")
                            => Placement(out[k]) = Placement(ms[k])
                               /\ out[k].status = "Finished"

(* a run that leaves a played match on its court and moves a match that is *)
(* still to play                                                           *)
C37_PlayedKeptOthersMoved ==
    \E id \in DOMAIN db : \E ms \in ReportedInputs(db[id]) :
        LET t == db[id]
            out == update_schedule(ms, t.courts, t.start_time, t.match_duration, today)
        IN  /\ ~ScheduleRaises(ms, t.courts)
            /\ \E k, j \in DOMAIN ms :
                   /\ ~IsGhost(ms[k]) /\ ms[k].status = "Finished" /\ ms[k].court # None
                   /\ Placement(out[k]) = Placement(ms[k])
                   /\ ~IsGhost(ms[j]) /\ ms[j].status # "Finished"
                   /\ ms[j].timestamp # NoStamp
                   /\ out[j].timestamp # ms[j].timestamp

(* C38: status and assignment agree.  In every stored tournament every     *)
(* match has status Pending, Scheduled or Finished; a match that is not    *)
(* Finished is Scheduled exactly when court, time and timestamp are all    *)
(* set, and Pending exactly when all three are unset.                      *)
C38_StatusMatchesPlacement ==
    \A id \in DOMAIN db : \A m \in MatchesOf(id) :
        /\ m.status \in {"Pending", "Scheduled", "Finished"}
        /\ m.status # "Finished"
              => /\ m.status = "Scheduled"
                       <=> (m.court # None /\ m.time # NoStamp /\ m.timestamp # NoStamp)
                 /\ m.status = "Pending"
                       <=> (m.court = None /\ m.time = NoStamp /\ m.timestamp = NoStamp)

(* a stored tournament with a placed match and a match the loop left out *)
C38_ScheduledBesidePending ==
    \E id \in DOMAIN db : \E a, b \in MatchesOf(id) :
        /\ a.status = "Scheduled" /\ a.court # None /\ a.timestamp # NoStamp
        /\ b.status = "Pending" /\ b.court = None /\ b.timestamp = NoStamp

(* C39: no team is asked to play two matches at once.  In every stored     *)
(* tournament each team name is in a slot of at most one match that is     *)
(* not Finished, and two matches that list the same team and both carry a  *)
(* timestamp do not overlap in [timestamp, timestamp + match_duration).    *)
Lists(m, team) == m.p1 = team \/ m.p2 = team

Overlap(t, a, b) ==
    /\ FromIsoFormat(a.timestamp) < FromIsoFormat(b.timestamp) + t.match_duration
    /\ FromIsoFormat(b.timestamp) < FromIsoFormat(a.timestamp) + t.match_duration

C39_OneMatchAtATime ==
    \A id \in DOMAIN db :
        LET t == db[id]
            ms == t.matches
        IN \A i \in 1..Len(t.teams) : \A j, k \in DOMAIN ms :
               (j # k /\ Lists(ms[j], t.teams[i]) /\ Lists(ms[k], t.teams[i]))
                   => /\ ms[j].status = "Finished" \/ ms[k].status = "Finished"
                      /\ (ms[j].timestamp # NoStamp /\ ms[k].timestamp # NoStamp)
                             => ~Overlap(t, ms[j], ms[k])

=============================================================================
